---- MODULE Spec2Model ----
(***************************************************************************)
(* Hybrid search engine of axiom8-mcp: the orchestrator                    *)
(* (HybridSearchEngine), the rank fusion (RRFFusion) and the reranker      *)
(* client (CohereReranker), modelled as a state machine.                   *)
(*                                                                         *)
(* Scores are exact rationals <<numerator, denominator>> in lowest terms,  *)
(* so that 1/(k+rank), 1 - index/n and provider scores compare exactly.    *)
(* A query is a tuple of characters; an entity id (nodeType) is a pair     *)
(* <<prefix, number>>, "nodes-base." for nodes and "template:" for the     *)
(* SearchResult form of a template.                                        *)
(***************************************************************************)
EXTENDS Integers, Sequences, FiniteSets, TLC

\* ------------------------------------------------------------------ bounds
MaxCalls == 2          \* search calls per behaviour, one caller at a time
MaxOverlapping == 3    \* search calls per behaviour, two callers at a time
MaxLimit == 1          \* largest explicit `limit` option a caller passes
MaxClock == 400        \* the clock stops advancing here (seconds)
TickSeconds == 400     \* seconds that pass in one Tick
MaxDocuments == 1      \* configured CohereReranker.maxDocuments (default 1000)
MaxListLen == 3        \* longest list handed to fuseResults on its own
MaxTexts == 3          \* most texts handed to generateEmbeddings in one call
BatchSize == 2         \* configured EmbeddingService.batchSize (default 100)
MantissaBits == 9      \* significant bits of a number (a JavaScript number has 53)
MaxSimilar == 2        \* largest `limit` handed to findSimilarNodes / Templates
MaxRepoClock == 1      \* CURRENT_TIMESTAMP stops advancing here (seconds)
MaxCombined == 2       \* searchCombined calls per behaviour
MaxCount == 30         \* largest result count handed to getOptimalK
MaxRrfK == 1           \* largest explicit `rrfK` option a caller passes
MaxLiveCalls == 2      \* search calls followed await by await, per behaviour
MaxStatements == 3     \* most statements of the migration SQL file
MaxMigrations == 2     \* migrateToSemanticSearch calls per behaviour
MaxAttempts == 4       \* provider requests of one retry loop that are followed

\* ------------------------------------------------------- program constants
DefaultLimit == 20
DefaultRrfK == 60
CacheTTL == 300
RrfK == 60
EmbeddingMaxRetries == 3      \* EmbeddingService.maxRetries
EmbeddingBaseDelayMs == 1000  \* EmbeddingService.baseDelayMs
InterBatchDelayMs == 100      \* the delay between two batches
BaseDelayMs == 1000           \* CohereReranker.baseDelayMs
EmbeddingCacheTTL == 86400000 \* EmbeddingService.cacheTTL: 24 * 60 * 60 * 1000 ms
MaxRetries == 3
DefaultTopN == 20             \* topN of rerank's default options
ScriptBatchSize == 50         \* `options.batchSize || 50` of generate-embeddings

Slots == {1, 2}                       \* callers; each has one call in flight
Entities == {1, 2}                    \* rows of one corpus

\* --------------------------------------------------------------- rationals
RECURSIVE Gcd(_, _)
Gcd(a, b) == IF b = 0 THEN a ELSE Gcd(b, a % b)

Abs(n) == IF n < 0 THEN -n ELSE n

\* n/d in lowest terms, d > 0
Rat(n, d) ==
    LET g == Gcd(Abs(n), Abs(d))
        s == IF d < 0 THEN -1 ELSE 1
    IN  IF n = 0 THEN <<0, 1>> ELSE <<(s * n) \div g, (s * d) \div g>>

RatAdd(x, y) == Rat(x[1] * y[2] + y[1] * x[2], x[2] * y[2])
RatMul(x, y) == Rat(x[1] * y[1], x[2] * y[2])
RatLess(x, y) == x[1] * y[2] < y[1] * x[2]
RatLeq(x, y) == x[1] * y[2] <= y[1] * x[2]
Zero == <<0, 1>>
One == <<1, 1>>

\* --------------------------------------------------------------- sequences
Min(a, b) == IF a < b THEN a ELSE b

\* Array.prototype.slice(0, n) for n >= 0
Slice(s, n) == SubSeq(s, 1, Min(n, Len(s)))

\* Array.prototype.slice(n): what follows the first n elements
SliceFrom(s, n) == SubSeq(s, Min(n, Len(s)) + 1, Len(s))

Range(s) == {s[i] : i \in DOMAIN s}

\* the sequences over S without repetition, of length at most n
DistinctSeqs(S, n) ==
    {s \in UNION {[1..m -> S] : m \in 0..Min(n, Cardinality(S))} :
        \A i, j \in DOMAIN s : i # j => s[i] # s[j]}

\* ----------------------------------------------------------------- queries
\* a query is a tuple of characters; " " is the only whitespace used
Queries == {<<>>, <<" ">>, <<"q">>, <<" ", "q">>}

IsSpace(ch) == ch = " "

RECURSIVE TrimStart(_)
TrimStart(q) ==
    IF q = <<>> THEN q
    ELSE IF IsSpace(Head(q)) THEN TrimStart(Tail(q)) ELSE q

RECURSIVE TrimEnd(_)
TrimEnd(q) ==
    IF q = <<>> THEN q
    ELSE IF IsSpace(q[Len(q)]) THEN TrimEnd(SubSeq(q, 1, Len(q) - 1)) ELSE q

\* String.prototype.trim
Trim(q) == TrimEnd(TrimStart(q))

\* a validation that rejects the empty string only
IsBlankQueryNoTrim(q) == q = <<>>

\* `!query || query.trim().length === 0`
IsBlankQuery(q) == q = <<>> \/ Len(Trim(q)) = 0

\* ----------------------------------------------------------------- options
\* an optional value is <<>> (not passed) or <<v>>
None == <<>>
Some(v) == <<v>>

NoOptions ==
    [limit |-> None, rrfK |-> None, enableReranking |-> None, searchMethods |-> None]

\* the defaultOptions an engine is constructed with
EngineOptions ==
    [limit : {None},
     rrfK : {None},
     enableReranking : {None, Some(FALSE)},
     searchMethods : {Some(<<"fts5">>), Some(<<"vector">>),
                      Some(<<"vector", "fts5">>)}]

\* the Partial<HybridSearchOptions> a caller passes to one call
CallerOptions ==
    [limit : {Some(n) : n \in 0..MaxLimit},
     rrfK : {None},
     enableReranking : {None},
     searchMethods : {None}]

\* one field of { <builtin>, ...this.defaultOptions, ...options }
Spread(builtin, def, opt) ==
    IF opt # None THEN opt[1] ELSE IF def # None THEN def[1] ELSE builtin

\* HybridSearchEngine.mergeOptions: the `x || default` values are overridden by
\* the spread of defaultOptions and then of options, so an explicit limit 0
\* stays 0
MergeOptions(defaultOptions, options) ==
    [limit |-> Spread(IF options.limit = None \/ options.limit = Some(0)
                      THEN DefaultLimit ELSE options.limit[1],
                      defaultOptions.limit, options.limit),
     rrfK |-> Spread(IF options.rrfK = None \/ options.rrfK = Some(0)
                     THEN DefaultRrfK ELSE options.rrfK[1],
                     defaultOptions.rrfK, options.rrfK),
     enableReranking |-> Spread(options.enableReranking # Some(FALSE),
                                defaultOptions.enableReranking,
                                options.enableReranking),
     searchMethods |-> Spread(IF options.searchMethods = None
                              THEN <<"fts5", "vector">>
                              ELSE options.searchMethods[1],
                              defaultOptions.searchMethods, options.searchMethods)]

\* Array.prototype.sort() on an array of 'fts5' | 'vector'
SortMethods(m) ==
    LET f == Cardinality({i \in DOMAIN m : m[i] = "fts5"})
    IN  [i \in 1..Len(m) |-> IF i <= f THEN "fts5" ELSE "vector"]

Includes(m, x) == \E i \in DOMAIN m : m[i] = x

\* HybridSearchEngine.getCacheKey: JSON.stringify of the key data, field by field
GetCacheKey(query, options) ==
    <<"query", query, "limit", options.limit, "rrfK", options.rrfK,
      "enableReranking", options.enableReranking,
      "searchMethods", SortMethods(options.searchMethods)>>

TemplatesSuffix == <<"_templates">>

\* the key search uses / the key searchTemplates uses
NodeCacheKey(cleanQuery, options) == GetCacheKey(cleanQuery, options)
TemplateCacheKey(cleanQuery, options) ==
    GetCacheKey(cleanQuery \o TemplatesSuffix, options)

\* ----------------------------------------------------------------- results
\* SearchResult: the fields the pipeline reads or rewrites (display fields and
\* metadata are carried along and left out)
NodeType(e) == <<"nodes-base.", e>>
TemplateNodeType(e) == <<"template:", e>>

SR(id, score, method) ==
    [nodeType |-> id, relevanceScore |-> score, searchMethod |-> method]

\* TemplateSearchResult: keyed by the numeric template id
TR(id, score, method) ==
    [id |-> id, relevanceScore |-> score, searchMethod |-> method]

\* the rows.map(...) of executeFTS5Search / executeTemplateFTS5Search /
\* executeTemplateLikeSearch: relevanceScore = 1 - index / max(n, 1)
RankToScore(index, n) == Rat((IF n > 1 THEN n ELSE 1) - index, IF n > 1 THEN n ELSE 1)

NodeRows(rows, method) ==
    [i \in 1..Len(rows) |-> SR(NodeType(rows[i]), RankToScore(i - 1, Len(rows)), method)]

TemplateRows(rows, method) ==
    [i \in 1..Len(rows) |-> TR(rows[i], RankToScore(i - 1, Len(rows)), method)]

\* HybridSearchEngine.convertTemplateToSearchResults
ConvertTemplateToSearchResults(templates) ==
    [i \in 1..Len(templates) |->
        SR(TemplateNodeType(templates[i].id), templates[i].relevanceScore,
           templates[i].searchMethod)]

RECURSIVE SelectSeq2(_, _)
SelectSeq2(s, keep) ==
    IF s = <<>> THEN <<>>
    ELSE IF Head(s) \in keep THEN <<Head(s)>> \o SelectSeq2(Tail(s), keep)
    ELSE SelectSeq2(Tail(s), keep)

\* HybridSearchEngine.convertSearchResultsToTemplate: keeps the results whose
\* nodeType starts with 'template:' and reads the id back with parseInt
ConvertSearchResultsToTemplate(searchResults) ==
    LET kept == SelectSeq2(searchResults,
                           {r \in Range(searchResults) : r.nodeType[1] = "template:"})
    IN  [i \in 1..Len(kept) |->
            TR(kept[i].nodeType[2], kept[i].relevanceScore, kept[i].searchMethod)]

\* ------------------------------------------------------------ lexical search
\* What the database answers to one lexical query: the FTS5 table is missing,
\* the statement throws, or it returns rows (at most LIMIT of them).
\*   kind "rows": FTS5 rows; "missing": no FTS5 table; "error": FTS5 throws
\*   like: the answer of the LIKE fallback (templates only): rows, or "error"
\* The answers are drawn from a world w: "wide" (every answer over Entities)
\* or "narrow" (one row list, used where two callers overlap); "ranked" has
\* the rows and hits of "wide" without the failures.
SqlRows(w, limit) ==
    IF w \in {"wide", "ranked"} THEN DistinctSeqs(Entities, limit)
    ELSE {r \in {<<>>, <<1>>} : Len(r) <= limit}

NodeLexicalAnswers(w, limit) ==
    [kind : {"rows"}, rows : SqlRows(w, limit), likeOk : {TRUE}, likeRows : {<<>>}]
    \cup (IF w = "wide"
          THEN [kind : {"missing", "error"}, rows : {<<>>}, likeOk : {TRUE},
                likeRows : {<<>>}]
          ELSE {})

TemplateLexicalAnswers(w, limit) ==
    [kind : {"rows"}, rows : SqlRows(w, limit), likeOk : {TRUE}, likeRows : {<<>>}]
    \cup (IF w = "wide"
          THEN [kind : {"missing", "error"}, rows : {<<>>}, likeOk : {TRUE},
                likeRows : SqlRows(w, limit)]
               \cup [kind : {"missing"}, rows : {<<>>}, likeOk : {FALSE},
                     likeRows : {<<>>}]
          ELSE IF w = "combined"
          THEN [kind : {"missing"}, rows : {<<>>}, likeOk : {FALSE}, likeRows : {<<>>}]
          ELSE {})

LexicalAnswers(w, corpus, limit) ==
    IF corpus = "nodes" THEN NodeLexicalAnswers(w, limit)
    ELSE TemplateLexicalAnswers(w, limit)

Ok(list) == [ok |-> TRUE, results |-> list]
Throw == [ok |-> FALSE, results |-> <<>>]

\* HybridSearchEngine.executeFTS5Search: missing table or exception give []
ExecuteFTS5Search(db) ==
    IF db.kind = "rows" THEN Ok(NodeRows(db.rows, "fts5")) ELSE Ok(<<>>)

\* HybridSearchEngine.executeTemplateLikeSearch: no try/catch of its own
ExecuteTemplateLikeSearch(db) ==
    IF db.likeOk THEN Ok(TemplateRows(db.likeRows, "like")) ELSE Throw

\* HybridSearchEngine.executeTemplateFTS5Search: missing table or exception
\* fall back to the LIKE search
ExecuteTemplateFTS5Search(db) ==
    IF db.kind = "rows" THEN Ok(TemplateRows(db.rows, "fts5"))
    ELSE ExecuteTemplateLikeSearch(db)

\* ------------------------------------------------------------- vector search
Threshold == <<1, 5>>                         \* threshold: 0.2
Similarities == {<<9, 10>>, <<1, 2>>}         \* similarities the scan can give

\* What the vector side answers to one query:
\*   ready: isVectorStorageReady();  embedOk: getEmbedding succeeded (after its
\*   retries);  scanOk: the similarity scan did not throw;  hits: the scan's
\*   result, entities with their similarity, best first, at most `limit`
VectorHits(w, limit) ==
    IF w \in {"wide", "ranked"}
    THEN {h \in UNION {[1..m -> Entities \X Similarities] :
                         m \in 0..Min(limit, Cardinality(Entities))} :
            /\ \A i, j \in DOMAIN h : i # j => h[i][1] # h[j][1]
            /\ \A i \in DOMAIN h : RatLeq(Threshold, h[i][2])
            /\ \A i \in 1..(Len(h) - 1) : RatLess(h[i + 1][2], h[i][2])}
    ELSE {h \in {<<<<1, <<9, 10>>>>>>} : Len(h) <= limit}

VectorAnswers(w, limit) ==
    [ready : {TRUE}, embedOk : {TRUE}, scanOk : {TRUE}, hits : VectorHits(w, limit)]
    \cup [ready : {TRUE}, embedOk : {FALSE}, scanOk : {TRUE}, hits : {<<>>}]
    \cup (IF w = "wide"
          THEN [ready : {FALSE}, embedOk : {TRUE}, scanOk : {TRUE}, hits : {<<>>}]
               \cup [ready : {TRUE}, embedOk : {TRUE}, scanOk : {FALSE}, hits : {<<>>}]
          ELSE {})

\* how the vector side went: "ok", "notReady", "embedding", "scan"
VectorOutcome(v) ==
    IF ~v.ready THEN "notReady"
    ELSE IF ~v.embedOk THEN "embedding"
    ELSE IF ~v.scanOk THEN "scan" ELSE "ok"

NodeHits(hits) ==
    [i \in 1..Len(hits) |-> SR(NodeType(hits[i][1]), hits[i][2], "vector")]

TemplateHits(hits) ==
    [i \in 1..Len(hits) |-> SR(TemplateNodeType(hits[i][1]), hits[i][2], "vector")]

\* executeVectorSearch without its catch: errors reach the caller
ExecuteVectorSearchRethrow(v) ==
    IF ~v.ready THEN Ok(<<>>)
    ELSE IF ~v.embedOk \/ ~v.scanOk THEN Throw
    ELSE Ok(NodeHits(v.hits))

\* HybridSearchEngine.executeVectorSearch: storage not ready gives []; an
\* embedding error or a scan error is caught and gives []
ExecuteVectorSearch(v) ==
    IF ~v.ready THEN Ok(<<>>)
    ELSE IF ~v.embedOk \/ ~v.scanOk THEN Ok(<<>>)
    ELSE Ok(NodeHits(v.hits))

\* HybridSearchEngine.executeTemplateVectorSearch: the same, on templates
ExecuteTemplateVectorSearch(v) ==
    IF ~v.ready THEN Ok(<<>>)
    ELSE IF ~v.embedOk \/ ~v.scanOk THEN Ok(<<>>)
    ELSE Ok(ConvertSearchResultsToTemplate(TemplateHits(v.hits)))

\* ---------------------------------------------------------------- RRFFusion
\* the fusion instance the engine constructs: new RRFFusion() has k = 60 and
\* weights 1.0 / 1.0
Weights == [fts5 |-> One, vector |-> One]

\* Map.set on an insertion-ordered map kept as a sequence of <<key, value>>
MapSet(m, key, value) ==
    IF \E i \in DOMAIN m : m[i][1] = key
    THEN [i \in DOMAIN m |-> IF m[i][1] = key THEN <<key, value>> ELSE m[i]]
    ELSE Append(m, <<key, value>>)

MapHas(m, key) == \E i \in DOMAIN m : m[i][1] = key
MapGet(m, key) == (CHOOSE i \in DOMAIN m : m[i][1] = key)

RECURSIVE AddFts(_, _)
AddFts(m, rest) ==
    IF rest = <<>> THEN m
    ELSE AddFts(MapSet(m, Head(rest).nodeType,
                       [Head(rest) EXCEPT !.searchMethod = "fts5"]),
                Tail(rest))

RECURSIVE AddVector(_, _)
AddVector(m, rest) ==
    IF rest = <<>> THEN m
    ELSE LET r == Head(rest)
         IN  AddVector(
                IF MapHas(m, r.nodeType)
                THEN MapSet(m, r.nodeType,
                            [m[MapGet(m, r.nodeType)][2] EXCEPT !.searchMethod = "hybrid"])
                ELSE MapSet(m, r.nodeType, [r EXCEPT !.searchMethod = "vector"]),
                Tail(rest))

\* a document set that keeps one entry per result handed in
CreateUnifiedDocumentSetKeepingAll(fts5Results, vectorResults) ==
    [i \in 1..(Len(fts5Results) + Len(vectorResults)) |->
        IF i <= Len(fts5Results)
        THEN <<fts5Results[i].nodeType, fts5Results[i]>>
        ELSE <<vectorResults[i - Len(fts5Results)].nodeType,
               vectorResults[i - Len(fts5Results)]>>]

\* RRFFusion.createUnifiedDocumentSet
CreateUnifiedDocumentSet(fts5Results, vectorResults) ==
    AddVector(AddFts(<<>>, fts5Results), vectorResults)

\* the rank map built by forEach((result, index) => map.set(nodeType, index + 1)):
\* the last occurrence of an id gives its rank; 0 when the id is absent
RankOf(results, id) ==
    IF \E i \in DOMAIN results : results[i].nodeType = id
    THEN CHOOSE i \in DOMAIN results :
            /\ results[i].nodeType = id
            /\ \A j \in (i + 1)..Len(results) : results[j].nodeType # id
    ELSE 0

\* a score that leaves out the vector list's term
RRFScoreFtsOnly(id, fts5Results, vectorResults) ==
    LET ftsRank == RankOf(fts5Results, id)
    IN  IF ftsRank # 0 THEN RatMul(Weights.fts5, Rat(1, RrfK + ftsRank)) ELSE Zero

\* a score computed from 0-based positions
RRFScoreZeroBased(id, fts5Results, vectorResults) ==
    LET ftsRank == RankOf(fts5Results, id)
        vectorRank == RankOf(vectorResults, id)
        f == IF ftsRank # 0 THEN RatMul(Weights.fts5, Rat(1, RrfK + ftsRank - 1))
             ELSE Zero
        v == IF vectorRank # 0
             THEN RatMul(Weights.vector, Rat(1, RrfK + vectorRank - 1))
             ELSE Zero
    IN  RatAdd(f, v)

\* RRFFusion.calculateRRFScores, for one document
RRFScore(id, fts5Results, vectorResults) ==
    LET ftsRank == RankOf(fts5Results, id)
        vectorRank == RankOf(vectorResults, id)
        f == IF ftsRank # 0 THEN RatMul(Weights.fts5, Rat(1, RrfK + ftsRank)) ELSE Zero
        v == IF vectorRank # 0 THEN RatMul(Weights.vector, Rat(1, RrfK + vectorRank))
             ELSE Zero
    IN  RatAdd(f, v)

\* fused results whose score keeps the document's raw score on top of the RRF
\* score
CreateFusedResultsAddingRaw(documents, fts5Results, vectorResults) ==
    [i \in DOMAIN documents |->
        [documents[i][2] EXCEPT
            !.relevanceScore = RatAdd(documents[i][2].relevanceScore,
                                      RRFScore(documents[i][1], fts5Results, vectorResults))]]

\* RRFFusion.createFusedResults
CreateFusedResults(documents, fts5Results, vectorResults) ==
    [i \in DOMAIN documents |->
        [documents[i][2] EXCEPT
            !.relevanceScore = RRFScore(documents[i][1], fts5Results, vectorResults)]]

\* an insertion that puts an element before those of equal score (a sort that
\* is not stable)
RECURSIVE InsertDescBeforeEqual(_, _)
InsertDescBeforeEqual(sorted, r) ==
    IF sorted = <<>> THEN <<r>>
    ELSE IF RatLeq(Head(sorted).relevanceScore, r.relevanceScore)
         THEN <<r>> \o sorted
         ELSE <<Head(sorted)>> \o InsertDescBeforeEqual(Tail(sorted), r)

\* Array.prototype.sort((a, b) => b.relevanceScore - a.relevanceScore): stable,
\* descending
RECURSIVE InsertDesc(_, _)
InsertDesc(sorted, r) ==
    IF sorted = <<>> THEN <<r>>
    ELSE IF RatLess(Head(sorted).relevanceScore, r.relevanceScore)
         THEN <<r>> \o sorted
         ELSE <<Head(sorted)>> \o InsertDesc(Tail(sorted), r)

RECURSIVE SortDesc(_)
SortDesc(s) ==
    IF s = <<>> THEN <<>>
    ELSE InsertDesc(SortDesc(SubSeq(s, 1, Len(s) - 1)), s[Len(s)])

\* RRFFusion.fuseResults
FuseResults(fts5Results, vectorResults) ==
    SortDesc(CreateFusedResults(CreateUnifiedDocumentSet(fts5Results, vectorResults),
                                fts5Results, vectorResults))

\* ------------------------------------------------------------ CohereReranker
\* One attempt of client.rerank: it throws (network, auth, a response that
\* cannot be read), or it answers; an answer has no `results`, or a list of
\* {index, relevance_score} (the score may be missing)
AttemptThrows == [kind |-> "throws", results |-> <<>>]
NoResults == [kind |-> "noResults", results |-> <<>>]
Answer(results) == [kind |-> "answer", results |-> results]

Item(index, score) == [index |-> index, score |-> score]

\* originalDocuments[result.index]: undefined unless 0 <= index < length
DocumentAt(originalDocuments, index) ==
    IF index >= 0 /\ index < Len(originalDocuments)
    THEN Some(originalDocuments[index + 1]) ELSE None

RECURSIVE Reranked(_, _)
Reranked(items, originalDocuments) ==
    IF items = <<>> THEN <<>>
    ELSE LET d == DocumentAt(originalDocuments, Head(items).index)
             score == IF Head(items).score = None THEN Zero ELSE Head(items).score[1]
         IN  (IF d = None THEN <<>>
              ELSE <<[d[1] EXCEPT !.relevanceScore = score, !.searchMethod = "hybrid"]>>)
             \o Reranked(Tail(items), originalDocuments)

\* CohereReranker.processRerankResponse
ProcessRerankResponse(response, originalDocuments) ==
    IF response.kind = "noResults" \/ Len(response.results) = 0
    THEN originalDocuments
    ELSE Reranked(response.results, originalDocuments)

\* CohereReranker.rerankWithRetries: the attempts are tried in order, at most
\* maxRetries of them; the first that does not throw is processed; when all
\* throw, it throws
RECURSIVE RerankWithRetries(_, _, _)
RerankWithRetries(attempts, originalDocuments, attempt) ==
    IF attempt >= MaxRetries \/ attempts = <<>> THEN Throw
    ELSE IF Head(attempts).kind = "throws"
         THEN RerankWithRetries(Tail(attempts), originalDocuments, attempt + 1)
         ELSE Ok(ProcessRerankResponse(Head(attempts), originalDocuments))

\* documents.slice(0, Math.min(documents.length, this.maxDocuments))
LimitedDocuments(documents) == Slice(documents, Min(Len(documents), MaxDocuments))

\* a rerank that drops what it did not send
RemainingDocumentsDropped(documents) == <<>>

\* documents.slice(this.maxDocuments)
RemainingDocuments(documents) == SliceFrom(documents, MaxDocuments)

\* CohereReranker.rerank: client says whether this.client is there after
\* initializeCohere (which throws when it is not); any exception gives back
\* `documents`
Rerank(query, documents, client, attempts) ==
    IF documents = <<>> \/ Trim(query) = <<>> THEN Ok(documents)
    ELSE LET limitedDocuments == LimitedDocuments(documents)
             r == RerankWithRetries(attempts, limitedDocuments, 0)
         IN  IF ~client THEN Ok(documents)
             ELSE IF ~r.ok THEN Ok(documents)
             ELSE Ok(r.results \o RemainingDocuments(documents))


\* ---------------------------------------------------------- EmbeddingService
Texts == {"a", "b", "c"}

\* the texts of one generateEmbeddings call (a text may occur twice)
TextLists == UNION {[1..n -> Texts] : n \in 0..MaxTexts}

\* EmbeddingService.createBatches
RECURSIVE CreateBatches(_, _)
CreateBatches(texts, batchSize) ==
    IF texts = <<>> THEN <<>>
    ELSE <<Slice(texts, batchSize)>> \o CreateBatches(SliceFrom(texts, batchSize), batchSize)

\* the number list the provider computes for a text, and the Float32Array
\* made of it
ProviderEmbedding(text) == <<"embedding", text>>
Float32Array(numbers) == <<"Float32Array", numbers>>

\* one item of response.data: the 0-based index of the input it answers
DataItem(index, text) == [index |-> index, embedding |-> ProviderEmbedding(text)]

ItemOrders(n) == {p \in [1..n -> 1..n] : \A i, j \in 1..n : i # j => p[i] # p[j]}

\* response.data for one batch: its items in any order, or a response that
\* lacks the first item
ProviderData(batch) ==
    LET items == [j \in 1..Len(batch) |-> DataItem(j - 1, batch[j])]
    IN  {[k \in 1..Len(batch) |-> items[p[k]]] : p \in ItemOrders(Len(batch))}
        \cup {Tail(items)}

\* response.data.sort((a, b) => a.index - b.index)
RECURSIVE InsertByIndex(_, _)
InsertByIndex(sorted, item) ==
    IF sorted = <<>> THEN <<item>>
    ELSE IF item.index < Head(sorted).index THEN <<item>> \o sorted
         ELSE <<Head(sorted)>> \o InsertByIndex(Tail(sorted), item)

RECURSIVE SortByIndex(_)
SortByIndex(data) ==
    IF data = <<>> THEN <<>>
    ELSE InsertByIndex(SortByIndex(SubSeq(data, 1, Len(data) - 1)), data[Len(data)])

\* the vectors of a response taken in the order the provider listed them
EmbeddingsInResponseOrder(data) ==
    [k \in DOMAIN data |-> Float32Array(data[k].embedding)]

\* processBatch: response.data sorted by index, each item as a Float32Array
EmbeddingsOf(data) ==
    LET sorted == SortByIndex(data)
    IN  [k \in DOMAIN sorted |-> Float32Array(sorted[k].embedding)]

\* what a client does, in order: a request of attempt k for batch i (rerank:
\* batch 1), its outcome, a wait
Create(i) == [e |-> "create", batch |-> i, ms |-> 0]
Threw(i) == [e |-> "threw", batch |-> i, ms |-> 0]
Succeeded(i) == [e |-> "answered", batch |-> i, ms |-> 0]
Delay(ms) == [e |-> "delay", batch |-> 0, ms |-> ms]

\* a retry loop that also waits after its last failed attempt
RECURSIVE ProcessBatchScheduleWaitingLast(_, _, _)
ProcessBatchScheduleWaitingLast(i, failures, attempt) ==
    IF attempt >= EmbeddingMaxRetries THEN <<>>
    ELSE IF failures = 0 THEN <<Create(i), Succeeded(i)>>
    ELSE <<Create(i), Threw(i), Delay(EmbeddingBaseDelayMs * 2 ^ attempt)>>
         \o ProcessBatchScheduleWaitingLast(i, failures - 1, attempt + 1)

\* the while loop of processBatch for batch i when its first `failures`
\* attempts throw: requests, outcomes and waits in order (attempt counts the
\* failures so far)
RECURSIVE ProcessBatchSchedule(_, _, _)
ProcessBatchSchedule(i, failures, attempt) ==
    IF attempt >= EmbeddingMaxRetries THEN <<>>
    ELSE IF failures = 0 THEN <<Create(i), Succeeded(i)>>
    ELSE <<Create(i), Threw(i)>>
         \o (IF attempt + 1 < EmbeddingMaxRetries
             THEN <<Delay(EmbeddingBaseDelayMs * 2 ^ (attempt + 1 - 1))>>
             ELSE <<>>)
         \o ProcessBatchSchedule(i, failures - 1, attempt + 1)

\* the while loop of rerankWithRetries over the outcomes of its attempts
RECURSIVE RerankSchedule(_, _)
RerankSchedule(attempts, attempt) ==
    IF attempt >= MaxRetries \/ attempts = <<>> THEN <<>>
    ELSE IF Head(attempts).kind # "throws" THEN <<Create(1), Succeeded(1)>>
    ELSE <<Create(1), Threw(1)>>
         \o (IF attempt + 1 < MaxRetries
             THEN <<Delay(BaseDelayMs * 2 ^ (attempt + 1 - 1))>>
             ELSE <<>>)
         \o RerankSchedule(Tail(attempts), attempt + 1)

\* a loop that waits after every batch
InterBatchDelayAlways(i, n) == <<Delay(InterBatchDelayMs)>>

\* generateEmbeddings: the wait after batch i of n
InterBatchDelay(i, n) == IF i < n THEN <<Delay(InterBatchDelayMs)>> ELSE <<>>

\* a processBatch that answers a batch it could not embed with no vectors
ProcessBatchSkipping(failures, data) ==
    IF failures >= EmbeddingMaxRetries THEN Ok(<<>>) ELSE Ok(EmbeddingsOf(data))

\* EmbeddingService.processBatch: `failures` attempts throw before one
\* answers `data`; after maxRetries failed attempts the batch throws
ProcessBatch(failures, data) ==
    IF failures >= EmbeddingMaxRetries THEN Throw ELSE Ok(EmbeddingsOf(data))

\* EmbeddingService.generateContentHash: the SHA-256 of the text in hex; the
\* digest is kept whole, and two texts are taken never to have the same one
GenerateContentHash(content) == <<"sha256", content>>

\* --------------------------------------------------------- VectorRepository
\* JavaScript numbers: binary floating point, every operation rounded to the
\* nearest representable value, ties to the even mantissa. A number is held as
\* the exact rational it stands for; NaN is the only other value that occurs.
NaN == <<"NaN">>

Pow2(k) == 2 ^ k

\* F(v), with v computed once
With(F(_), v) == CHOOSE r \in {F(x) : x \in {v}} : TRUE

\* x / 2^e as a pair of integers, numerator and denominator
Scale(x, e) ==
    <<IF e < 0 THEN x[1] * Pow2(-e) ELSE x[1], IF e > 0 THEN x[2] * Pow2(e) ELSE x[2]>>

\* the exponent e with 2^(MantissaBits-1) <= x / 2^e < 2^MantissaBits, x > 0
RECURSIVE ExponentFrom(_, _)
ExponentFrom(x, e) ==
    IF Scale(x, e)[1] >= Pow2(MantissaBits) * Scale(x, e)[2] THEN ExponentFrom(x, e + 1)
    ELSE IF Scale(x, e)[1] < Pow2(MantissaBits - 1) * Scale(x, e)[2]
    THEN ExponentFrom(x, e - 1)
    ELSE e

ExponentOf(x) == ExponentFrom(x, 0)

\* num / den rounded to the nearest integer, ties to even
RoundHalfEven(num, den) ==
    IF 2 * (num % den) > den \/ (2 * (num % den) = den /\ (num \div den) % 2 = 1)
    THEN (num \div den) + 1
    ELSE num \div den

\* the number m * 2^e
Float(m, e) == IF e < 0 THEN Rat(m, Pow2(-e)) ELSE Rat(m * Pow2(e), 1)

\* the representable number nearest to the rational x
FloatRound(x) ==
    IF x[1] = 0 THEN Zero
    ELSE With(LAMBDA ax :
                With(LAMBDA e :
                       With(LAMBDA m : Float((IF x[1] < 0 THEN -1 ELSE 1) * m, e),
                            RoundHalfEven(Scale(ax, e)[1], Scale(ax, e)[2])),
                     ExponentOf(ax)),
              <<Abs(x[1]), x[2]>>)

FloatMul(x, y) == With(LAMBDA product : FloatRound(product), RatMul(x, y))

\* x / y; 0 / 0 is NaN (no other division by zero occurs here)
FloatDiv(x, y) ==
    IF y[1] = 0 THEN NaN
    ELSE With(LAMBDA quotient : FloatRound(quotient), Rat(x[1] * y[2], x[2] * y[1]))

\* n / 4^e as a pair of integers
SqrtScale(n, e) ==
    <<IF e < 0 THEN n * Pow2(-2 * e) ELSE n, IF e > 0 THEN Pow2(2 * e) ELSE 1>>

\* the exponent e with 2^(MantissaBits-1) <= sqrt(n) / 2^e < 2^MantissaBits
RECURSIVE SqrtExponentFrom(_, _)
SqrtExponentFrom(n, e) ==
    IF SqrtScale(n, e)[1] >= Pow2(2 * MantissaBits) * SqrtScale(n, e)[2]
    THEN SqrtExponentFrom(n, e + 1)
    ELSE IF SqrtScale(n, e)[1] < Pow2(2 * (MantissaBits - 1)) * SqrtScale(n, e)[2]
    THEN SqrtExponentFrom(n, e - 1)
    ELSE e

\* the integer part of sqrt(num / den), which has MantissaBits bits
SqrtFloor(num, den) ==
    CHOOSE m \in Pow2(MantissaBits - 1)..(Pow2(MantissaBits) - 1) :
        m * m * den <= num /\ num < (m + 1) * (m + 1) * den

\* sqrt(num / den) rounded to the nearest integer, f being its integer part
SqrtRound(num, den, f) ==
    IF 4 * num > (4 * f * f + 4 * f + 1) * den
       \/ (4 * num = (4 * f * f + 4 * f + 1) * den /\ f % 2 = 1)
    THEN f + 1
    ELSE f

\* Math.sqrt of an integer n >= 0, correctly rounded
MathSqrt(n) ==
    IF n = 0 THEN Zero
    ELSE With(LAMBDA e :
                With(LAMBDA s :
                       With(LAMBDA f : Float(SqrtRound(s[1], s[2], f), e),
                            SqrtFloor(s[1], s[2])),
                     SqrtScale(n, e)),
              SqrtExponentFrom(n, 0))

\* the sum over i of a[i] * b[i]; the components are small integers, so that
\* the products and the sums are exact
RECURSIVE DotProduct(_, _)
DotProduct(a, b) ==
    IF a = <<>> THEN 0 ELSE Head(a) * Head(b) + DotProduct(Tail(a), Tail(b))

\* the last line of calculateCosineSimilarity
NaNToZero(similarity) == IF similarity = NaN THEN Zero ELSE similarity

\* VectorRepository.calculateCosineSimilarity, for vectors of one length
CalculateCosineSimilarity(a, b) ==
    LET dotProduct == DotProduct(a, b)
        normA == DotProduct(a, a)
        normB == DotProduct(b, b)
    IN  With(LAMBDA sqrtA :
               With(LAMBDA sqrtB :
                      With(LAMBDA norms :
                             With(LAMBDA similarity : NaNToZero(similarity),
                                  FloatDiv(Rat(dotProduct, 1), norms)),
                           FloatMul(sqrtA, sqrtB)),
                    MathSqrt(normB)),
             MathSqrt(normA))

\* Buffer.from(embedding.buffer) and new Float32Array(buffer.buffer): the
\* bytes of the vector and back
BufferFrom(embedding) == <<"Buffer", embedding>>
Float32ArrayOf(buffer) == buffer[2]

\* the vectors that are stored and asked for; one has another length
QueryVectors == {<<0, 0, 0>>, <<1, 1, 0>>, <<1, 1, 1>>, <<-1, 0, 0>>}
StoredVectors == QueryVectors \cup {<<1, 1>>}
Thresholds == {Zero, Threshold}

\* the searchable texts an entity can have
RepoTexts == {"a", "b"}

\* one row of nodes or templates: the embedding columns (NULL is None), and
\* the entity's current text and updated_at; history: savedCurrent says that
\* the last save carried the hash of the text and the text has not changed
\* since
NewRow == [vector |-> None, hash |-> None, generatedAt |-> None, updatedAt |-> 0,
           text |-> "a", savedCurrent |-> FALSE]

\* stmt.run of the UPDATE ... WHERE node_type = ? (id = ?): no row, no change
RunSave(table, id, embedding, contentHash, now) ==
    IF id \notin DOMAIN table THEN table
    ELSE [table EXCEPT ![id] = [@ EXCEPT !.vector = Some(BufferFrom(embedding)),
                                        !.hash = Some(contentHash),
                                        !.generatedAt = Some(now),
                                        !.savedCurrent =
                                            (contentHash = GenerateContentHash(table[id].text))]]

\* the body handed to db.transaction: one stmt.run per record, in order; the
\* failAt-th one throws (0: none does)
RECURSIVE RunBatch(_, _, _, _, _)
RunBatch(table, embeddings, k, failAt, now) ==
    IF k > Len(embeddings) THEN [ok |-> TRUE, table |-> table]
    ELSE IF k = failAt THEN [ok |-> FALSE, table |-> table]
    ELSE RunBatch(RunSave(table, embeddings[k].nodeType, embeddings[k].embedding,
                          embeddings[k].contentHash, now),
                  embeddings, k + 1, failAt, now)

\* DatabaseAdapter.transaction(fn): fn runs at once; if it throws, what it
\* wrote is rolled back and the error goes on
Transaction(table, run) == IF run.ok THEN run.table ELSE table

\* a batch save whose writes are not in one transaction
BatchSaveEmbeddingsOneByOne(table, embeddings, failAt, now) ==
    RunBatch(table, embeddings, 1, failAt, now)

\* VectorRepository.batchSaveEmbeddings
BatchSaveEmbeddings(table, embeddings, failAt, now) ==
    LET run == RunBatch(table, embeddings, 1, failAt, now)
    IN  [ok |-> run.ok, table |-> Transaction(table, run)]

\* the ids of a table in the order a scan gives them
RECURSIVE IdsInOrder(_)
IdsInOrder(ids) ==
    IF ids = {} THEN <<>>
    ELSE LET least == CHOOSE i \in ids : \A j \in ids : i <= j
         IN  <<least>> \o IdsInOrder(ids \ {least})

\* WHERE embedding_vector IS NULL OR embedding_content_hash IS NULL
\*    OR embedding_generated_at < updated_at
NeedsEmbedding(row) ==
    \/ row.vector = None
    \/ row.hash = None
    \/ (row.generatedAt # None /\ row.generatedAt[1] < row.updatedAt)

\* getNodesNeedingEmbeddings / getTemplatesNeedingEmbeddings: the rows the
\* query selects, as [id, current_hash]
GetNeedingEmbeddings(table) ==
    LET ids == IdsInOrder(DOMAIN table)
        kept == SelectSeq2(ids, {i \in DOMAIN table : NeedsEmbedding(table[i])})
    IN  [k \in DOMAIN kept |-> [id |-> kept[k], current_hash |-> table[kept[k]].hash]]

\* the loop of findSimilarNodes over the rows that have a vector: a vector of
\* another length makes calculateCosineSimilarity throw and is skipped
RECURSIVE SimilaritiesOf(_, _, _, _)
SimilaritiesOf(table, ids, queryVector, threshold) ==
    IF ids = <<>> THEN <<>>
    ELSE LET id == Head(ids)
             rest == SimilaritiesOf(table, Tail(ids), queryVector, threshold)
         IN  IF table[id].vector = None THEN rest
             ELSE LET nodeEmbedding == Float32ArrayOf(table[id].vector[1])
                  IN  IF Len(nodeEmbedding) # Len(queryVector) THEN rest
                      ELSE LET similarity ==
                                   CalculateCosineSimilarity(queryVector, nodeEmbedding)
                           IN  IF RatLeq(threshold, similarity)
                               THEN <<[id |-> id, similarity |-> similarity]>> \o rest
                               ELSE rest

\* similarities.sort((a, b) => b.similarity - a.similarity)
RECURSIVE InsertBySimilarity(_, _)
InsertBySimilarity(sorted, r) ==
    IF sorted = <<>> THEN <<r>>
    ELSE IF RatLess(Head(sorted).similarity, r.similarity) THEN <<r>> \o sorted
         ELSE <<Head(sorted)>> \o InsertBySimilarity(Tail(sorted), r)

RECURSIVE SortBySimilarity(_)
SortBySimilarity(list) ==
    IF list = <<>> THEN <<>>
    ELSE InsertBySimilarity(SortBySimilarity(SubSeq(list, 1, Len(list) - 1)),
                            list[Len(list)])

\* a scan that truncates before it sorts
TopResultsUnsorted(similarities, limit) == SortBySimilarity(Slice(similarities, limit))

\* findSimilarNodes: sort, then slice(0, limit)
TopResults(similarities, limit) == Slice(SortBySimilarity(similarities), limit)

\* VectorRepository.findSimilarNodes
FindSimilarNodes(table, queryVector, limit, threshold) ==
    LET similarities == SimilaritiesOf(table, IdsInOrder(DOMAIN table), queryVector,
                                       threshold)
        topResults == TopResults(similarities, limit)
    IN  [k \in DOMAIN topResults |->
            SR(NodeType(topResults[k].id), topResults[k].similarity, "vector")]

\* VectorRepository.findSimilarTemplates
FindSimilarTemplates(table, queryVector, limit, threshold) ==
    LET similarities == SimilaritiesOf(table, IdsInOrder(DOMAIN table), queryVector,
                                       threshold)
        topResults == TopResults(similarities, limit)
    IN  [k \in DOMAIN topResults |->
            SR(TemplateNodeType(topResults[k].id), topResults[k].similarity, "vector")]

CostPerToken == <<1, 50000000>>               \* 0.00002 / 1000

\* a cache entry that is still served at the very end of its 24 hours
IsFreshInclusive(cached, now) ==
    cached # None /\ now - cached[1].timestamp <= EmbeddingCacheTTL

\* getEmbedding: `cached && Date.now() - cached.timestamp < this.cacheTTL`
IsFresh(cached, now) ==
    cached # None /\ now - cached[1].timestamp < EmbeddingCacheTTL

\* the instants at which Date.now() is read
Instants == {0, 1, EmbeddingCacheTTL - 1, EmbeddingCacheTTL, EmbeddingCacheTTL + 1,
             2 * EmbeddingCacheTTL}

\* response.usage.total_tokens of one request
TokenCounts == {1, 2}

\* generateEmbeddings([text]) as getEmbedding calls it: one batch; openai says
\* whether the client is there after initializeOpenAI
GenerateEmbeddingsOfOne(text, openai, failures, data, tokens) ==
    IF ~openai THEN [ok |-> FALSE, embeddings |-> <<>>, totalTokens |-> 0, totalCost |-> Zero]
    ELSE LET batchResult == ProcessBatch(failures, data)
         IN  IF ~batchResult.ok
             THEN [ok |-> FALSE, embeddings |-> <<>>, totalTokens |-> 0, totalCost |-> Zero]
             ELSE [ok |-> TRUE, embeddings |-> batchResult.results,
                   totalTokens |-> tokens,
                   totalCost |-> RatMul(Rat(tokens, 1), CostPerToken)]

\* ------------------------------------------------------------------- state
VARIABLES
    calls,          \* per caller: the search call it has in flight
    cache,          \* HybridSearchEngine.cache: key -> [value, expires]
    enableCache,    \* HybridSearchEngine.enableCache
    defaults,       \* HybridSearchEngine.defaultOptions
    cohereClient,   \* CohereReranker.client is set
    clock,          \* Date.now(), in seconds
    issued,         \* search calls started so far
    firstReturn,    \* history: per cache key, the first list a search returned
                    \* since the last clearCache, and when
    direct,         \* a call of CohereReranker.rerank made on the reranker itself
    fusion,         \* a call of RRFFusion.fuseResults made on the fusion itself
    embedding,      \* a call of EmbeddingService.generateEmbeddings
    single,         \* EmbeddingService as getEmbedding uses it: its client, its
                    \* cache, the time, and the getEmbedding call in flight
    repo,           \* VectorRepository: the nodes and templates tables, the
                    \* time, and the repository call in flight
    combined,       \* a call of HybridSearchEngine.searchCombined
    optimal,        \* a call of RRFFusion.getOptimalK
    live,           \* one search call followed await by await
    script,         \* generate-embeddings: the tables and the run in flight
    migration       \* DatabaseMigrationUtils: the database and the call in flight

vars == <<calls, cache, enableCache, defaults, cohereClient, clock, issued, firstReturn,
          direct, fusion, embedding, single, repo, combined, optimal, live, script,
          migration>>

IdleCall ==
    [pc |-> "idle", corpus |-> "nodes", blank |-> FALSE, query |-> <<>>,
     options |-> MergeOptions(NoOptions, NoOptions),
     key |-> <<>>, fts |-> <<>>, vec |-> <<>>, vout |-> "none",
     fused |-> <<>>, final |-> <<>>, results |-> <<>>, err |-> FALSE,
     avail |-> "none", prior |-> None, trace |-> <<>>]

IdleDirect ==
    [pc |-> "idle", query |-> <<>>, documents |-> <<>>, client |-> FALSE,
     attempts |-> <<>>, results |-> <<>>, err |-> FALSE, log |-> <<>>,
     sent |-> <<>>]

IdleFusion ==
    [pc |-> "idle", fts5Results |-> <<>>, vectorResults |-> <<>>, results |-> <<>>]

\* openai: this.openai is set; cache: content hash -> [embedding, timestamp];
\* now: Date.now() in ms; the call: its text, the cache entry it found (before)
\* and the time (at) when it ran, the entry it left (after), the provider
\* requests it made, its result
NoEmbeddingResult == [embedding |-> <<>>, tokenCount |-> 0, cost |-> Zero]

IdleSingle ==
    [openai |-> FALSE, cache |-> <<>>, now |-> 0, pc |-> "idle", text |-> "a",
     before |-> None, at |-> 0, after |-> None, requests |-> 0, result |-> NoEmbeddingResult,
     err |-> FALSE]

\* nodes, templates: the tables; now: CURRENT_TIMESTAMP; the call: which
\* method (op), the tables as it found them (before), its arguments, what it
\* returned (results) and whether it threw (err); failAt: which write of a
\* batch threw (0: none)
IdleRepo ==
    [nodes |-> [e \in Entities |-> NewRow], templates |-> [e \in Entities |-> NewRow],
     now |-> 0, pc |-> "idle", op |-> "none", before |-> <<>>, id |-> 0,
     queryVector |-> <<>>, limit |-> 0, threshold |-> Zero, batch |-> <<>>,
     failAt |-> 0, results |-> <<>>, err |-> FALSE]

\* texts: the argument; i: the batch processed next (1-based); responses: the
\* response.data received so far, one per batch; embeddings: the vectors
\* collected so far; log: the requests, outcomes and waits so far
IdleEmbedding ==
    [pc |-> "idle", texts |-> <<>>, i |-> 1, responses |-> <<>>, embeddings |-> <<>>,
     err |-> FALSE, log |-> <<>>]

\* query, limit: the query and the merged limit of the call; nodeLimit,
\* templateLimit: the limits its two searches ran with; failed: one of the two
\* threw; nodes, templates, totalCount: the CombinedSearchResult
IdleCombined ==
    [pc |-> "idle", query |-> <<>>, limit |-> 0, nodeLimit |-> 0, templateLimit |-> 0,
     failed |-> FALSE, raised |-> FALSE, nodes |-> <<>>, templates |-> <<>>,
     totalCount |-> 0, produced |-> [nodes |-> <<>>, templates |-> <<>>]]

IdleLive ==
    [pc |-> "idle", fts |-> "done", vec |-> "done", rerank |-> FALSE,
     ftsHit |-> FALSE, vecHit |-> FALSE,
     attempt |-> 0, made |-> 0, rerankAttempt |-> 0, rerankMade |-> 0,
     outcome |-> "none", started |-> 0]

NoStats == [total |-> 0, processed |-> 0, skipped |-> 0, failed |-> 0]

\* table: the nodes or templates table; before: the table when the run began;
\* batches, batchIndex: the loop over the batches (1-based, the batch processed
\* next); sent: the [id, content] handed to generateEmbeddings so far;
\* counted: history, the ids behind every increment of the three counters
IdleScript ==
    [pc |-> "idle", kind |-> "node", table |-> [e \in Entities |-> NewRow],
     before |-> [e \in Entities |-> NewRow], now |-> 0,
     options |-> [forceRegenerate |-> FALSE, dryRun |-> FALSE, batchSize |-> None,
                  nodeTypes |-> None],
     batches |-> <<>>, batchIndex |-> 1, stats |-> NoStats, sent |-> <<>>,
     counted |-> [processed |-> <<>>, skipped |-> <<>>, failed |-> <<>>]]

\* the database as the migration sees it: whether a transaction is open, the
\* schema changes made inside it, the schema changes that are durable, and
\* whether migration_history holds CURRENT_VERSION
NewDb == [inTransaction |-> FALSE, pending |-> {}, durable |-> {}, recorded |-> FALSE]

\* db: the database; before: the database when the call began; statements,
\* next: the loop over the statements (1-based); errors: errors.length;
\* result: the MigrationResult; fault, committed, recordedNow: history of the
\* call (what failed outside the statements, whether its COMMIT went through,
\* whether it wrote migration_history)
IdleMigration ==
    [pc |-> "idle", db |-> NewDb, before |-> NewDb,
     options |-> [createBackup |-> TRUE, forceReapply |-> FALSE, dryRun |-> FALSE],
     statements |-> <<>>, next |-> 1, errors |-> 0,
     result |-> [success |-> FALSE, applied |-> FALSE],
     fault |-> "none", committed |-> FALSE, recordedNow |-> FALSE, started |-> 0]

IdleOptimal == [pc |-> "idle", fts5Count |-> 0, vectorCount |-> 0, k |-> 0]

\* the engine as constructed, serving one caller at a time
Init ==
    /\ calls = [c \in Slots |-> IdleCall]
    /\ cache = <<>>
    /\ enableCache \in BOOLEAN
    /\ defaults \in EngineOptions
    /\ cohereClient = FALSE
    /\ clock = 0
    /\ issued = 0
    /\ firstReturn = <<>>
    /\ direct = IdleDirect
    /\ fusion = IdleFusion
    /\ embedding = IdleEmbedding
    /\ single = IdleSingle
    /\ repo = IdleRepo
    /\ combined = IdleCombined
    /\ optimal = IdleOptimal
    /\ live = IdleLive
    /\ script = IdleScript
    /\ migration = IdleMigration

\* the engine constructed with no options, serving two callers
InitOverlap ==
    /\ calls = [c \in Slots |-> IdleCall]
    /\ cache = <<>>
    /\ enableCache = TRUE
    /\ defaults = NoOptions
    /\ cohereClient = FALSE
    /\ clock = 0
    /\ issued = 0
    /\ firstReturn = <<>>
    /\ direct = IdleDirect
    /\ fusion = IdleFusion
    /\ embedding = IdleEmbedding
    /\ single = IdleSingle
    /\ repo = IdleRepo
    /\ combined = IdleCombined
    /\ optimal = IdleOptimal
    /\ live = IdleLive
    /\ script = IdleScript
    /\ migration = IdleMigration

\* ------------------------------------------------- SimpleCache (utils)
\* The cache as the engine uses it: get(key), set(key, value, ttlSeconds),
\* clear(). An entry is a value with an expiry; get serves it while the clock
\* is before the expiry; set writes the entry of the key, whatever the key held.
CacheGet(key) ==
    IF key \in DOMAIN cache /\ clock < cache[key].expires
    THEN Some(cache[key].value) ELSE None

CacheSet(key, value, ttl) ==
    [k \in DOMAIN cache \cup {key} |->
        IF k = key THEN [value |-> value, expires |-> clock + ttl] ELSE cache[k]]

\* the history behind "a search with this key has returned a list"
RememberIn(history, key, list) ==
    IF enableCache /\ (key \notin DOMAIN history
                       \/ clock >= history[key].at + CacheTTL)
    THEN [k \in DOMAIN history \cup {key} |->
            IF k = key THEN [value |-> list, at |-> clock] ELSE history[k]]
    ELSE history

Remember(key, list) == RememberIn(firstReturn, key, list)

Prior(key) ==
    IF enableCache /\ key \in DOMAIN firstReturn
       /\ clock < firstReturn[key].at + CacheTTL
    THEN Some(firstReturn[key].value) ELSE None

\* ------------------------------------------------------ HybridSearchEngine
\* a pipeline that never runs the vector search
PipelineWithoutVector(options) ==
    [fts5 |-> Includes(options.searchMethods, "fts5"),
     vector |-> FALSE,
     rrf |-> Len(options.searchMethods) > 1,
     rerank |-> options.enableReranking]

\* the `pipeline` object of executeSearchPipeline
Pipeline(options) ==
    [fts5 |-> Includes(options.searchMethods, "fts5"),
     vector |-> Includes(options.searchMethods, "vector"),
     rrf |-> Len(options.searchMethods) > 1,
     rerank |-> options.enableReranking]

\* getCacheKey sorts options.searchMethods in place; the array is the one of
\* defaultOptions when the caller passed none
SortedInPlace(options) == [options EXCEPT !.searchMethods = SortMethods(@)]

DefaultsAfterKey(asked) ==
    IF asked.searchMethods = None /\ defaults.searchMethods # None
    THEN [defaults EXCEPT !.searchMethods = Some(SortMethods(@[1]))]
    ELSE defaults

\* the cache key of a call and what the cache holds for it
KeyOf(corpus, query, asked) ==
    IF corpus = "nodes" THEN NodeCacheKey(Trim(query), MergeOptions(defaults, asked))
    ELSE TemplateCacheKey(Trim(query), MergeOptions(defaults, asked))

Cached(corpus, query, asked) ==
    IF enableCache THEN CacheGet(KeyOf(corpus, query, asked)) ELSE None

\* search / searchTemplates up to the first await: validation, cache lookup,
\* and the start of both searches (the lexical one runs to its end, it awaits
\* nothing); db is what the database answers to the lexical query
Begun(corpus, query, asked, db) ==
    LET merged == MergeOptions(defaults, asked)
        cleanQuery == Trim(query)
        key == KeyOf(corpus, query, asked)
        options == SortedInPlace(merged)
        cached == Cached(corpus, query, asked)
        pipeline == Pipeline(options)
        lexical == IF ~pipeline.fts5 THEN Ok(<<>>)
                   ELSE IF corpus = "nodes" THEN ExecuteFTS5Search(db)
                   ELSE ExecuteTemplateFTS5Search(db)
        base == [IdleCall EXCEPT !.corpus = corpus, !.options = merged]
    IN  IF IsBlankQuery(query)
        THEN [base EXCEPT !.pc = "done", !.blank = TRUE, !.query = query]
        ELSE IF cached # None
        THEN [base EXCEPT !.pc = "done", !.key = key,
                          !.query = cleanQuery,
                          !.options = options,
                          !.prior = Prior(key),
                          !.results = cached[1],
                          !.trace = <<"cacheGet">>]
        ELSE [base EXCEPT
                 !.key = key,
                 !.query = cleanQuery,
                 !.options = options,
                 !.prior = Prior(key),
                 !.fts = lexical.results,
                 !.err = ~lexical.ok,
                 !.pc = IF ~lexical.ok THEN "done"
                        ELSE IF pipeline.vector THEN "vector"
                        ELSE "fuse",
                 !.trace = (IF enableCache THEN <<"cacheGet">> ELSE <<>>)
                           \o (IF pipeline.fts5 THEN <<"fts5">> ELSE <<>>)
                           \o (IF pipeline.vector THEN <<"vector">>
                               ELSE <<>>)]

\* a list served from the cache is a list the key has returned
Served(history, corpus, query, asked) ==
    LET key == KeyOf(corpus, query, asked)
        cached == Cached(corpus, query, asked)
    IN  IF IsBlankQuery(query) \/ cached = None THEN history
        ELSE RememberIn(history, key, cached[1])

Begin(c, corpus, query, asked, db) ==
    /\ calls[c].pc = "idle"
    /\ issued' = issued + 1
    /\ calls' = [calls EXCEPT ![c] = Begun(corpus, query, asked, db)]
    /\ defaults' = IF IsBlankQuery(query) THEN defaults ELSE DefaultsAfterKey(asked)
    /\ firstReturn' = Served(firstReturn, corpus, query, asked)
    /\ UNCHANGED <<cache, enableCache, cohereClient, clock, direct,
                   fusion, embedding, single, repo, combined, optimal, live, script, migration>>

\* the queries and options callers use in world w
\* two queries of which one is the other followed by '_templates'
SuffixQueries == {<<"q">>, <<"q">> \o TemplatesSuffix}

QueriesOf(w) ==
    IF w = "wide" THEN Queries
    ELSE IF w \in {"suffix", "combined"} THEN SuffixQueries
    ELSE {<<"q">>}
\* the options of a caller that may set rrfK
RrfKOptions ==
    [limit : {None},
     rrfK : {None} \cup {Some(k) : k \in 1..MaxRrfK},
     enableReranking : {None},
     searchMethods : {None}]

OptionsOf(w) ==
    IF w = "wide" THEN CallerOptions
    ELSE IF w = "rrfK" THEN RrfKOptions
    ELSE IF w = "combined" THEN CallerOptions \cup {NoOptions}
    ELSE {NoOptions}

\* the lexical answers that matter to a call: none when the query is blank or
\* the lexical search is not enabled
AnswersFor(w, corpus, query, asked) ==
    IF IsBlankQuery(query) \/ ~Pipeline(MergeOptions(defaults, asked)).fts5
    THEN {[kind |-> "rows", rows |-> <<>>, likeOk |-> TRUE, likeRows |-> <<>>]}
    ELSE LexicalAnswers(w, corpus, MergeOptions(defaults, asked).limit * 2)

\* HybridSearchEngine.search
Search(c, w, max) ==
    /\ issued < max
    /\ \E query \in QueriesOf(w), asked \in OptionsOf(w) :
          \E db \in AnswersFor(w, "nodes", query, asked) :
              Begin(c, "nodes", query, asked, db)

\* HybridSearchEngine.searchTemplates
SearchTemplates(c, w, max) ==
    /\ issued < max
    /\ \E query \in QueriesOf(w), asked \in OptionsOf(w) :
          \E db \in AnswersFor(w, "templates", query, asked) :
              Begin(c, "templates", query, asked, db)

\* the vector search of a call completes (executeVectorSearch /
\* executeTemplateVectorSearch, awaited by Promise.all)
VectorSearch(c, w) ==
    /\ calls[c].pc = "vector"
    /\ \E v \in VectorAnswers(w, calls[c].options.limit * 2) :
          LET r == IF calls[c].corpus = "nodes" THEN ExecuteVectorSearch(v)
                   ELSE ExecuteTemplateVectorSearch(v)
          IN  calls' = [calls EXCEPT ![c] =
                  [@ EXCEPT !.vec = r.results,
                            !.vout = VectorOutcome(v),
                            !.err = ~r.ok,
                            !.pc = IF r.ok THEN "fuse" ELSE "done",
                            !.trace = @ \o <<"isVectorStorageReady">>
                                        \o (IF v.ready THEN <<"getEmbedding">> ELSE <<>>)
                                        \o (IF v.ready /\ v.embedOk THEN <<"findSimilar">>
                                            ELSE <<>>)]]
    /\ UNCHANGED <<cache, enableCache, defaults, cohereClient, clock, issued,
                   firstReturn, direct,
                   fusion, embedding, single, repo, combined, optimal, live, script, migration>>

\* a stage 2 that fuses whatever the two searches gave
UsesFusionAlways(pipeline, fts5Results, vectorResults) == TRUE

\* whether stage 2 calls rrfFusion.fuseResults
UsesFusion(pipeline, fts5Results, vectorResults) ==
    pipeline.rrf /\ Len(fts5Results) > 0 /\ Len(vectorResults) > 0

\* a stage 2 that sends a single list through fuseResults as well
FusedResultsThroughFusion(corpus, pipeline, fts5Results, vectorResults) ==
    IF corpus = "nodes" THEN FuseResults(fts5Results, vectorResults)
    ELSE ConvertSearchResultsToTemplate(
             FuseResults(ConvertTemplateToSearchResults(fts5Results),
                         ConvertTemplateToSearchResults(vectorResults)))

\* stage 2 of executeSearchPipeline / executeTemplateSearchPipeline
FusedResults(corpus, pipeline, fts5Results, vectorResults) ==
    IF UsesFusion(pipeline, fts5Results, vectorResults)
    THEN IF corpus = "nodes" THEN FuseResults(fts5Results, vectorResults)
         ELSE ConvertSearchResultsToTemplate(
                  FuseResults(ConvertTemplateToSearchResults(fts5Results),
                              ConvertTemplateToSearchResults(vectorResults)))
    ELSE IF Len(fts5Results) > 0 /\ Len(vectorResults) = 0 THEN fts5Results
    ELSE IF Len(vectorResults) > 0 /\ Len(fts5Results) = 0 THEN vectorResults
    ELSE fts5Results \o vectorResults

\* a stage 3 that does not look at pipeline.rerank
WantsRerankAlways(pipeline, fusedResults) == Len(fusedResults) > 0

\* the guard of stage 3: `pipeline.rerank && fusedResults.length > 0`
WantsRerank(pipeline, fusedResults) == pipeline.rerank /\ Len(fusedResults) > 0

\* stage 2, and stage 3 up to `await this.cohereReranker.isAvailable()`; the
\* two input lists are not read again after this step, and the later steps
\* drop them
Fuse(c) ==
    LET call == calls[c]
        pipeline == Pipeline(call.options)
        fusedResults == FusedResults(call.corpus, pipeline, call.fts, call.vec)
    IN  /\ call.pc = "fuse"
        /\ calls' = [calls EXCEPT ![c] =
              [@ EXCEPT !.fused = fusedResults,
                        !.final = fusedResults,
                        !.pc = IF WantsRerank(pipeline, fusedResults)
                               THEN "available" ELSE "truncate",
                        !.trace = @ \o (IF UsesFusion(pipeline, call.fts, call.vec)
                                        THEN <<"fuseResults">> ELSE <<>>)
                                    \o (IF WantsRerank(pipeline, fusedResults)
                                        THEN <<"isAvailable">> ELSE <<>>)]]
        /\ UNCHANGED <<cache, enableCache, defaults, cohereClient, clock, issued,
                       firstReturn, direct,
                   fusion, embedding, single, repo, combined, optimal, live, script, migration>>

\* CohereReranker.isAvailable: true when the client is there or
\* initializeCohere succeeds now (key present and package loaded)
IsAvailable(client, initOk) == client \/ initOk

\* a stage 3 that reranks whatever isAvailable() answered
RerankRegardless(isAvailable) == "rerank"

\* `if (isAvailable) { ... rerank ... }`: the step that follows the answer
AfterAvailable(isAvailable) == IF isAvailable THEN "rerank" ELSE "truncate"

\* isAvailable() answers; when it is true the pipeline goes on to call rerank
Available(c) ==
    /\ calls[c].pc = "available"
    /\ \E initOk \in BOOLEAN :
          LET isAvailable == IsAvailable(cohereClient, initOk)
          IN  /\ cohereClient' = (cohereClient \/ initOk)
              /\ calls' = [calls EXCEPT ![c] =
                    [@ EXCEPT !.fts = <<>>, !.vec = <<>>,
                              !.avail = IF isAvailable THEN "yes" ELSE "no",
                              !.pc = AfterAvailable(isAvailable),
                              !.trace = @ \o (IF AfterAvailable(isAvailable) = "rerank"
                                              THEN <<"rerank">> ELSE <<>>)]]
    /\ UNCHANGED <<cache, enableCache, defaults, clock, issued, firstReturn, direct,
                   fusion, embedding, single, repo, combined, optimal, live, script, migration>>

\* what the provider can answer to the attempts of one rerank call: the first
\* document scored, an index past the documents sent, more results than
\* documents, a missing score, no results
First == Item(0, Some(<<9, 10>>))
PastEnd == Item(MaxDocuments, Some(<<9, 10>>))
Low == Item(0, Some(<<1, 100>>))              \* a document found barely relevant
Responses(w) ==
    IF w = "wide"
    THEN {NoResults, Answer(<<>>), Answer(<<First>>), Answer(<<PastEnd>>),
          Answer(<<PastEnd, First>>), Answer(<<First, First>>),
          Answer(<<Item(0, None)>>)}
    ELSE IF w = "ranked" THEN {Answer(<<First>>), Answer(<<Low>>)}
    ELSE {Answer(<<First>>)}
AttemptLists(w) ==
    {<<r>> : r \in Responses(w)}
    \cup {<<AttemptThrows, AttemptThrows, AttemptThrows>>}
    \cup (IF w = "wide"
          THEN {<<AttemptThrows, AttemptThrows, Answer(<<First>>)>>}
          ELSE {})

\* cohereReranker.rerank(query, fusedResults, ...) answers
RerankDone(c, w) ==
    /\ calls[c].pc = "rerank"
    /\ \E attempts \in AttemptLists(w) :
          LET call == calls[c]
              r == IF call.corpus = "nodes"
                   THEN Rerank(call.query, call.fused, cohereClient, attempts)
                   ELSE Rerank(call.query, ConvertTemplateToSearchResults(call.fused),
                               cohereClient, attempts)
              finalResults == IF call.corpus = "nodes" THEN r.results
                              ELSE ConvertSearchResultsToTemplate(r.results)
          IN  calls' = [calls EXCEPT ![c] =
                  [@ EXCEPT !.fts = <<>>, !.vec = <<>>,
                            !.final = finalResults,
                            !.err = ~r.ok,
                            !.pc = IF r.ok THEN "truncate" ELSE "done"]]
    /\ UNCHANGED <<cache, enableCache, defaults, cohereClient, clock, issued,
                   firstReturn, direct,
                   fusion, embedding, single, repo, combined, optimal, live, script, migration>>

\* a pipeline that returns finalResults as they are
TruncateNone(finalResults, limit) == finalResults

\* `finalResults.slice(0, options.limit)`
Truncate(finalResults, limit) == Slice(finalResults, limit)

\* an end of search that adds its list to the list the key already holds
FinishMerging(c) ==
    LET call == calls[c]
        results == Truncate(call.final, call.options.limit)
        held == CacheGet(call.key)
        written == IF held = None THEN results ELSE held[1] \o results
    IN  /\ call.pc = "truncate"
        /\ calls' = [calls EXCEPT ![c] =
              [@ EXCEPT !.fts = <<>>, !.vec = <<>>,
                        !.results = results,
                        !.pc = "done",
                        !.trace = @ \o <<"truncate">>
                                    \o (IF enableCache THEN <<"cacheSet">> ELSE <<>>)]]
        /\ cache' = IF enableCache THEN CacheSet(call.key, written, CacheTTL) ELSE cache
        /\ firstReturn' = Remember(call.key, results)
        /\ UNCHANGED <<enableCache, defaults, cohereClient, clock, issued, direct,
                   fusion, embedding, single, repo, combined, optimal, live, script, migration>>

\* the end of the pipeline and of search: truncation, cache write, return
Finish(c) ==
    LET call == calls[c]
        results == Truncate(call.final, call.options.limit)
    IN  /\ call.pc = "truncate"
        /\ calls' = [calls EXCEPT ![c] =
              [@ EXCEPT !.fts = <<>>, !.vec = <<>>,
                        !.results = results,
                        !.pc = "done",
                        !.trace = @ \o <<"truncate">>
                                    \o (IF enableCache THEN <<"cacheSet">> ELSE <<>>)]]
        /\ cache' = IF enableCache THEN CacheSet(call.key, results, CacheTTL) ELSE cache
        /\ firstReturn' = Remember(call.key, results)
        /\ UNCHANGED <<enableCache, defaults, cohereClient, clock, issued, direct,
                   fusion, embedding, single, repo, combined, optimal, live, script, migration>>

\* the caller has its answer
Return(c) ==
    /\ calls[c].pc = "done"
    /\ calls' = [calls EXCEPT ![c] = IdleCall]
    /\ UNCHANGED <<cache, enableCache, defaults, cohereClient, clock, issued,
                   firstReturn, direct,
                   fusion, embedding, single, repo, combined, optimal, live, script, migration>>

\* HybridSearchEngine.clearCache
ClearCache ==
    /\ enableCache
    /\ cache # <<>>
    /\ cache' = <<>>
    /\ firstReturn' = <<>>
    /\ UNCHANGED <<calls, enableCache, defaults, cohereClient, clock, issued, direct,
                   fusion, embedding, single, repo, combined, optimal, live, script, migration>>

\* time passes; the clock is read only against the expiry of cache entries,
\* so it is let run once there is an entry
Tick ==
    /\ cache # <<>>
    /\ clock + TickSeconds <= MaxClock
    /\ clock' = clock + TickSeconds
    /\ UNCHANGED <<calls, cache, enableCache, defaults, cohereClient, issued,
                   firstReturn, direct,
                   fusion, embedding, single, repo, combined, optimal, live, script, migration>>

\* one caller: a call is started only when the one before it has returned
Next ==
    \/ Search(1, "wide", MaxCalls)
    \/ SearchTemplates(1, "wide", MaxCalls)
    \/ VectorSearch(1, "wide")
    \/ Fuse(1)
    \/ Available(1)
    \/ RerankDone(1, "wide")
    \/ Finish(1)
    \/ Return(1)
    \/ ClearCache
    \/ Tick

Spec == Init /\ [][Next]_vars

\* two callers whose calls overlap
NextOverlap ==
    \/ \E c \in Slots : Search(c, "narrow", MaxOverlapping)
    \/ \E c \in Slots : SearchTemplates(c, "narrow", MaxOverlapping)
    \/ \E c \in Slots : VectorSearch(c, "narrow")
    \/ \E c \in Slots : Fuse(c)
    \/ \E c \in Slots : Available(c)
    \/ \E c \in Slots : RerankDone(c, "narrow")
    \/ \E c \in Slots : Finish(c)
    \/ \E c \in Slots : Return(c)
    \/ ClearCache
    \/ Tick

SpecOverlap == InitOverlap /\ [][NextOverlap]_vars

\* ------------------------------- queries that end in the templates suffix
\* one caller whose queries may end in '_templates'
NextSuffix ==
    \/ Search(1, "suffix", MaxCalls)
    \/ SearchTemplates(1, "suffix", MaxCalls)
    \/ VectorSearch(1, "suffix")
    \/ Fuse(1)
    \/ Available(1)
    \/ RerankDone(1, "suffix")
    \/ Finish(1)
    \/ Return(1)
    \/ ClearCache
    \/ Tick

SpecSuffix == InitOverlap /\ [][NextSuffix]_vars

\* ------------------------------------ calls that return more than one result
\* one caller that passes no options (limit 20), over every row list and hit
\* list, with a provider that scores the first document high or low
NextRanked ==
    \/ Search(1, "ranked", MaxCalls)
    \/ SearchTemplates(1, "ranked", MaxCalls)
    \/ VectorSearch(1, "ranked")
    \/ Fuse(1)
    \/ Available(1)
    \/ RerankDone(1, "ranked")
    \/ Finish(1)
    \/ Return(1)
    \/ ClearCache
    \/ Tick

SpecRanked == InitOverlap /\ [][NextRanked]_vars

\* ------------------------------------------------ callers that set rrfK
\* one caller that passes rrfK or leaves it out
NextRrfK ==
    \/ Search(1, "rrfK", MaxCalls)
    \/ SearchTemplates(1, "rrfK", MaxCalls)
    \/ VectorSearch(1, "rrfK")
    \/ Fuse(1)
    \/ Available(1)
    \/ RerankDone(1, "rrfK")
    \/ Finish(1)
    \/ Return(1)
    \/ ClearCache
    \/ Tick

SpecRrfK == InitOverlap /\ [][NextRrfK]_vars

\* ------------------------------------------------ a cache store that can fail
\* the end of the pipeline when this.cache.set throws: the call is inside the
\* try of search / searchTemplates, whose catch logs and re-throws
FinishWriteFails(c) ==
    LET call == calls[c]
    IN  /\ call.pc = "truncate"
        /\ enableCache
        /\ calls' = [calls EXCEPT ![c] =
              [@ EXCEPT !.fts = <<>>, !.vec = <<>>,
                        !.final = Truncate(call.final, call.options.limit),
                        !.err = TRUE,
                        !.pc = "done",
                        !.trace = @ \o <<"truncate", "cacheSet">>]]
        /\ UNCHANGED <<cache, enableCache, defaults, cohereClient, clock, issued,
                       firstReturn, direct,
                   fusion, embedding, single, repo, combined, optimal, live, script, migration>>

\* one caller, on a store whose writes can fail
NextFault ==
    \/ Next
    \/ FinishWriteFails(1)

SpecFault == Init /\ [][NextFault]_vars

\* ------------------------------------------------------- searchCombined
\* Math.ceil(limit * 0.7) and Math.ceil(limit * 0.3); the products of doubles
\* have the ceilings of the exact products for every limit up to 3,000,000
NodeLimit(limit) == (limit * 7 + 9) \div 10
TemplateLimit(limit) == (limit * 3 + 9) \div 10

\* { ...searchOptions, limit }
WithLimit(searchOptions, limit) ==
    [limit |-> Some(limit), rrfK |-> Some(searchOptions.rrfK),
     enableReranking |-> Some(searchOptions.enableReranking),
     searchMethods |-> Some(searchOptions.searchMethods)]

\* HybridSearchEngine.searchCombined up to its await: search and
\* searchTemplates are called one after the other and each runs up to its
\* first await
SearchCombined(w) ==
    /\ combined.pc = "idle"
    /\ \A c \in Slots : calls[c].pc = "idle"
    /\ issued + 2 <= 2 * MaxCombined
    /\ \E query \in QueriesOf(w), asked \in OptionsOf(w) :
          LET searchOptions == MergeOptions(defaults, asked)
              nodeAsked == WithLimit(searchOptions, NodeLimit(searchOptions.limit))
              templateAsked == WithLimit(searchOptions, TemplateLimit(searchOptions.limit))
          IN  \E nodeDb \in AnswersFor(w, "nodes", query, nodeAsked),
                 templateDb \in AnswersFor(w, "templates", query, templateAsked) :
                  LET nodeCall == Begun("nodes", query, nodeAsked, nodeDb)
                      templateCall == Begun("templates", query, templateAsked, templateDb)
                  IN  /\ calls' = [c \in Slots |-> IF c = 1 THEN nodeCall ELSE templateCall]
                      /\ defaults' = IF IsBlankQuery(query) THEN defaults
                                     ELSE DefaultsAfterKey(asked)
                      /\ firstReturn' = Served(Served(firstReturn, "nodes", query, nodeAsked),
                                               "templates", query, templateAsked)
                      /\ issued' = issued + 2
                      /\ combined' = [IdleCombined EXCEPT
                                        !.pc = "running",
                                        !.query = query,
                                        !.limit = searchOptions.limit,
                                        !.nodeLimit = nodeCall.options.limit,
                                        !.templateLimit = templateCall.options.limit]
    /\ UNCHANGED <<cache, enableCache, cohereClient, clock, direct, fusion, embedding,
                   single, repo, optimal, live, script, migration>>

\* a catch block that returns what the searches had produced
CombinedResultKeepingOther(failed, nodeResults, templateResults) ==
    [raised |-> FALSE, nodes |-> nodeResults, templates |-> templateResults,
     totalCount |-> Len(nodeResults) + Len(templateResults)]

\* the two return statements of searchCombined: the one of the try block and
\* the one of the catch block; neither throws
CombinedResult(failed, nodeResults, templateResults) ==
    IF failed
    THEN [raised |-> FALSE, nodes |-> <<>>, templates |-> <<>>, totalCount |-> 0]
    ELSE [raised |-> FALSE, nodes |-> nodeResults, templates |-> templateResults,
          totalCount |-> Len(nodeResults) + Len(templateResults)]

\* `await Promise.all([...])` resumes: with both lists, or with the error of
\* the search that threw first, which the catch turns into an empty result
\* (produced: history, the lists the two searches had returned by then)
CombinedSettled ==
    LET failed == \E c \in Slots : calls[c].pc = "done" /\ calls[c].err
        nodeResults == IF calls[1].pc = "done" THEN calls[1].results ELSE <<>>
        templateResults == IF calls[2].pc = "done" THEN calls[2].results ELSE <<>>
        result == CombinedResult(failed, nodeResults, templateResults)
    IN  /\ combined.pc = "running"
        /\ failed \/ \A c \in Slots : calls[c].pc = "done"
        /\ combined' = [combined EXCEPT
                          !.pc = "returned",
                          !.failed = failed,
                          !.raised = result.raised,
                          !.nodes = result.nodes,
                          !.templates = result.templates,
                          !.totalCount = result.totalCount,
                          !.produced = [nodes |-> nodeResults,
                                        templates |-> templateResults]]
        /\ calls' = [c \in Slots |-> IF calls[c].pc = "done" THEN IdleCall ELSE calls[c]]
        /\ UNCHANGED <<cache, enableCache, defaults, cohereClient, clock, issued,
                       firstReturn, direct, fusion, embedding, single, repo, optimal, live, script, migration>>

\* a search that ends after searchCombined has returned: nobody awaits it
Abandoned(c) ==
    /\ combined.pc # "running"
    /\ Return(c)

\* the caller has its CombinedSearchResult
CombinedReturn ==
    /\ combined.pc = "returned"
    /\ combined' = IdleCombined
    /\ UNCHANGED <<calls, cache, enableCache, defaults, cohereClient, clock, issued,
                   firstReturn, direct, fusion, embedding, single, repo, optimal, live, script, migration>>

\* one caller of searchCombined, whose queries may end in '_templates'
NextCombined ==
    \/ SearchCombined("combined")
    \/ \E c \in Slots : VectorSearch(c, "combined")
    \/ \E c \in Slots : Fuse(c)
    \/ \E c \in Slots : Available(c)
    \/ \E c \in Slots : RerankDone(c, "combined")
    \/ \E c \in Slots : Finish(c)
    \/ CombinedSettled
    \/ \E c \in Slots : Abandoned(c)
    \/ CombinedReturn

SpecCombined == InitOverlap /\ [][NextCombined]_vars

\* --------------------------------------------- the fusion called on its own
\* ranked lists handed to fuseResults: entities without repetition, each with
\* a raw relevanceScore, at most MaxListLen of them
FusionEntities == {1, 2, 3}

RankedLists(method) ==
    {[i \in DOMAIN l |-> SR(NodeType(l[i][1]), l[i][2], method)] :
        l \in {h \in UNION {[1..m -> FusionEntities \X Similarities] :
                               m \in 0..Min(MaxListLen, Cardinality(FusionEntities))} :
                  \A i, j \in DOMAIN h : i # j => h[i][1] # h[j][1]}}

\* RRFFusion.fuseResults(fts5Results, vectorResults): the whole call
FuseCall ==
    /\ fusion.pc = "idle"
    /\ \E fts5Results \in RankedLists("fts5"), vectorResults \in RankedLists("vector") :
          fusion' = [pc |-> "returned", fts5Results |-> fts5Results,
                     vectorResults |-> vectorResults,
                     results |-> FuseResults(fts5Results, vectorResults)]
    /\ UNCHANGED <<calls, cache, enableCache, defaults, cohereClient, clock, issued,
                   firstReturn, direct, embedding, single, repo, combined, optimal, live, script, migration>>

\* the caller of fuseResults has its answer
FuseReturn ==
    /\ fusion.pc = "returned"
    /\ fusion' = IdleFusion
    /\ UNCHANGED <<calls, cache, enableCache, defaults, cohereClient, clock, issued,
                   firstReturn, direct, embedding, single, repo, combined, optimal, live, script, migration>>

NextFusion == FuseCall \/ FuseReturn

SpecFusion == InitOverlap /\ [][NextFusion]_vars

\* ranked lists in which the same entity may occur more than once
RepeatedLists(method) ==
    {[i \in DOMAIN l |-> SR(NodeType(l[i]), <<9, 10>>, method)] :
        l \in UNION {[1..m -> FusionEntities] : m \in 0..MaxListLen}}

\* RRFFusion.fuseResults(fts5Results, vectorResults) on lists that may repeat
\* an id: the whole call
FuseRepeatedCall ==
    /\ fusion.pc = "idle"
    /\ \E fts5Results \in RepeatedLists("fts5"), vectorResults \in RepeatedLists("vector") :
          fusion' = [pc |-> "returned", fts5Results |-> fts5Results,
                     vectorResults |-> vectorResults,
                     results |-> FuseResults(fts5Results, vectorResults)]
    /\ UNCHANGED <<calls, cache, enableCache, defaults, cohereClient, clock, issued,
                   firstReturn, direct, embedding, single, repo, combined, optimal, live, script, migration>>

NextRepeated == FuseRepeatedCall \/ FuseReturn

SpecRepeated == InitOverlap /\ [][NextRepeated]_vars

\* ---------------------------------------------------------------------------
\* one search call, await by await: every external call (the lexical query,
\* the readiness check, the embedding request, the vector scan, the rerank
\* request) is a step of its own that returns or fails, and the two retry
\* loops advance one attempt at a time

\* a retry loop whose condition is always true
RetryAlways(attempt, maxRetries) == TRUE

\* `while (attempt < this.maxRetries)` of processBatch and rerankWithRetries
RetryAgain(attempt, maxRetries) == attempt < maxRetries

\* HybridSearchEngine.search up to Stage 1 of executeSearchPipeline: a blank
\* query and a cache hit return at once; otherwise the two searches the
\* options name are started together (Promise.all)
LiveSearch ==
    /\ live.pc = "idle"
    /\ live.started < MaxLiveCalls
    /\ \E blank \in BOOLEAN, cached \in BOOLEAN, fts5 \in BOOLEAN, vector \in BOOLEAN,
          enableReranking \in BOOLEAN :
          live' = IF blank \/ cached
                  THEN [IdleLive EXCEPT !.pc = "done", !.outcome = "list",
                                        !.started = live.started + 1]
                  ELSE [IdleLive EXCEPT !.pc = "stage1",
                                        !.fts = IF fts5 THEN "query" ELSE "done",
                                        !.vec = IF vector THEN "ready" ELSE "done",
                                        !.rerank = enableReranking,
                                        !.started = live.started + 1]
    /\ UNCHANGED <<calls, cache, enableCache, defaults, cohereClient, clock, issued,
                   firstReturn, direct, fusion, embedding, single, repo, combined,
                   optimal, script, migration>>

\* executeFTS5Search: the lexical query returns rows or fails; a failure is
\* caught and gives []
LiveFTS5 ==
    /\ live.pc = "stage1"
    /\ live.fts = "query"
    /\ \E returns \in BOOLEAN, rows \in BOOLEAN :
          live' = [live EXCEPT !.fts = "done", !.ftsHit = returns /\ rows]
    /\ UNCHANGED <<calls, cache, enableCache, defaults, cohereClient, clock, issued,
                   firstReturn, direct, fusion, embedding, single, repo, combined,
                   optimal, script, migration>>

\* executeVectorSearch: isVectorStorageReady() answers; not ready, or a
\* failure (caught), gives []
LiveReady ==
    /\ live.pc = "stage1"
    /\ live.vec = "ready"
    /\ \E isReady \in BOOLEAN :
          live' = [live EXCEPT !.vec = IF isReady THEN "getEmbedding" ELSE "done"]
    /\ UNCHANGED <<calls, cache, enableCache, defaults, cohereClient, clock, issued,
                   firstReturn, direct, fusion, embedding, single, repo, combined,
                   optimal, script, migration>>

\* EmbeddingService.getEmbedding up to processBatch: a fresh cached vector
\* needs no request; initializeOpenAI may throw, which executeVectorSearch
\* catches
LiveGetEmbedding ==
    /\ live.pc = "stage1"
    /\ live.vec = "getEmbedding"
    /\ \E cached \in BOOLEAN, initOk \in BOOLEAN :
          live' = [live EXCEPT !.vec = IF cached THEN "scan"
                                       ELSE IF initOk THEN "attempt"
                                       ELSE "done"]
    /\ UNCHANGED <<calls, cache, enableCache, defaults, cohereClient, clock, issued,
                   firstReturn, direct, fusion, embedding, single, repo, combined,
                   optimal, script, migration>>

\* processBatch: one pass of the while loop; the request answers (an answer
\* without a vector makes getEmbedding throw) or throws, and a throw is
\* followed by a wait only when another attempt is left
LiveEmbedAttempt ==
    /\ live.pc = "stage1"
    /\ live.vec = "attempt"
    /\ RetryAgain(live.attempt, EmbeddingMaxRetries)
    /\ live.made < MaxAttempts
    /\ \E answers \in BOOLEAN, hasVector \in BOOLEAN :
          live' = IF answers
                  THEN [live EXCEPT !.made = @ + 1,
                                    !.vec = IF hasVector THEN "scan" ELSE "done"]
                  ELSE [live EXCEPT !.made = @ + 1,
                                    !.attempt = @ + 1,
                                    !.vec = IF live.attempt + 1 < EmbeddingMaxRetries
                                            THEN "delay" ELSE "attempt"]
    /\ UNCHANGED <<calls, cache, enableCache, defaults, cohereClient, clock, issued,
                   firstReturn, direct, fusion, embedding, single, repo, combined,
                   optimal, script, migration>>

\* processBatch: `await this.delay(delay)` is over
LiveEmbedDelay ==
    /\ live.pc = "stage1"
    /\ live.vec = "delay"
    /\ live' = [live EXCEPT !.vec = "attempt"]
    /\ UNCHANGED <<calls, cache, enableCache, defaults, cohereClient, clock, issued,
                   firstReturn, direct, fusion, embedding, single, repo, combined,
                   optimal, script, migration>>

\* processBatch: the loop is left and the batch throws; executeVectorSearch
\* catches and gives []
LiveEmbedExhausted ==
    /\ live.pc = "stage1"
    /\ live.vec = "attempt"
    /\ ~RetryAgain(live.attempt, EmbeddingMaxRetries)
    /\ live' = [live EXCEPT !.vec = "done"]
    /\ UNCHANGED <<calls, cache, enableCache, defaults, cohereClient, clock, issued,
                   firstReturn, direct, fusion, embedding, single, repo, combined,
                   optimal, script, migration>>

\* executeVectorSearch: findSimilarNodes returns rows or fails (caught)
LiveScan ==
    /\ live.pc = "stage1"
    /\ live.vec = "scan"
    /\ \E returns \in BOOLEAN, rows \in BOOLEAN :
          live' = [live EXCEPT !.vec = "done", !.vecHit = returns /\ rows]
    /\ UNCHANGED <<calls, cache, enableCache, defaults, cohereClient, clock, issued,
                   firstReturn, direct, fusion, embedding, single, repo, combined,
                   optimal, script, migration>>

\* executeSearchPipeline, Stage 2 and the test of Stage 3: both searches
\* have settled; fusion is synchronous
LiveFuse ==
    /\ live.pc = "stage1"
    /\ live.fts = "done"
    /\ live.vec = "done"
    /\ live' = [live EXCEPT !.pc = IF live.rerank /\ (live.ftsHit \/ live.vecHit)
                                   THEN "available" ELSE "truncate"]
    /\ UNCHANGED <<calls, cache, enableCache, defaults, cohereClient, clock, issued,
                   firstReturn, direct, fusion, embedding, single, repo, combined,
                   optimal, script, migration>>

\* cohereReranker.isAvailable() answers, then rerank() up to
\* rerankWithRetries (initializeCohere succeeds again once it has succeeded)
LiveAvailable ==
    /\ live.pc = "available"
    /\ \E isAvailable \in BOOLEAN :
          live' = [live EXCEPT !.pc = AfterAvailable(isAvailable)]
    /\ UNCHANGED <<calls, cache, enableCache, defaults, cohereClient, clock, issued,
                   firstReturn, direct, fusion, embedding, single, repo, combined,
                   optimal, script, migration>>

\* rerankWithRetries: one pass of the while loop; the request answers (a
\* response that processRerankResponse rejects counts as a throw) or throws
LiveRerankAttempt ==
    /\ live.pc = "rerank"
    /\ RetryAgain(live.rerankAttempt, MaxRetries)
    /\ live.rerankMade < MaxAttempts
    /\ \E answers \in BOOLEAN :
          live' = IF answers
                  THEN [live EXCEPT !.rerankMade = @ + 1, !.pc = "truncate"]
                  ELSE [live EXCEPT !.rerankMade = @ + 1,
                                    !.rerankAttempt = @ + 1,
                                    !.pc = IF live.rerankAttempt + 1 < MaxRetries
                                           THEN "rerankDelay" ELSE "rerank"]
    /\ UNCHANGED <<calls, cache, enableCache, defaults, cohereClient, clock, issued,
                   firstReturn, direct, fusion, embedding, single, repo, combined,
                   optimal, script, migration>>

\* rerankWithRetries: `await this.delay(delay)` is over
LiveRerankDelay ==
    /\ live.pc = "rerankDelay"
    /\ live' = [live EXCEPT !.pc = "rerank"]
    /\ UNCHANGED <<calls, cache, enableCache, defaults, cohereClient, clock, issued,
                   firstReturn, direct, fusion, embedding, single, repo, combined,
                   optimal, script, migration>>

\* rerankWithRetries: the loop is left and the call throws; rerank catches
\* and returns the documents it was given
LiveRerankExhausted ==
    /\ live.pc = "rerank"
    /\ ~RetryAgain(live.rerankAttempt, MaxRetries)
    /\ live' = [live EXCEPT !.pc = "truncate"]
    /\ UNCHANGED <<calls, cache, enableCache, defaults, cohereClient, clock, issued,
                   firstReturn, direct, fusion, embedding, single, repo, combined,
                   optimal, script, migration>>

\* the end of executeSearchPipeline and of search: the slice, the cache write
\* (inside the try, so a write that throws is rethrown) and the return
LiveFinish ==
    /\ live.pc = "truncate"
    /\ \E writeOk \in BOOLEAN :
          live' = [live EXCEPT !.pc = "done",
                               !.outcome = IF writeOk THEN "list" ELSE "error"]
    /\ UNCHANGED <<calls, cache, enableCache, defaults, cohereClient, clock, issued,
                   firstReturn, direct, fusion, embedding, single, repo, combined,
                   optimal, script, migration>>

\* the caller has its list or its error
LiveReturn ==
    /\ live.pc = "done"
    /\ live' = [IdleLive EXCEPT !.started = live.started]
    /\ UNCHANGED <<calls, cache, enableCache, defaults, cohereClient, clock, issued,
                   firstReturn, direct, fusion, embedding, single, repo, combined,
                   optimal, script, migration>>

NextLive ==
    \/ LiveSearch
    \/ LiveFTS5
    \/ LiveReady
    \/ LiveGetEmbedding
    \/ LiveEmbedAttempt
    \/ LiveEmbedDelay
    \/ LiveEmbedExhausted
    \/ LiveScan
    \/ LiveFuse
    \/ LiveAvailable
    \/ LiveRerankAttempt
    \/ LiveRerankDelay
    \/ LiveRerankExhausted
    \/ LiveFinish
    \/ LiveReturn

\* every step of a call in flight is a continuation the event loop runs once
\* the promise it awaits has settled, and every external call settles; only
\* the start of a new search is left to the caller
LiveFairness ==
    /\ WF_vars(LiveFTS5)
    /\ WF_vars(LiveReady)
    /\ WF_vars(LiveGetEmbedding)
    /\ WF_vars(LiveEmbedAttempt)
    /\ WF_vars(LiveEmbedDelay)
    /\ WF_vars(LiveEmbedExhausted)
    /\ WF_vars(LiveScan)
    /\ WF_vars(LiveFuse)
    /\ WF_vars(LiveAvailable)
    /\ WF_vars(LiveRerankAttempt)
    /\ WF_vars(LiveRerankDelay)
    /\ WF_vars(LiveRerankExhausted)
    /\ WF_vars(LiveFinish)

SpecLive == InitOverlap /\ [][NextLive]_vars /\ LiveFairness


\* ------------------------------------------------------ getOptimalK
\* RRFFusion.getOptimalK
GetOptimalK(fts5Count, vectorCount) ==
    LET totalResults == fts5Count + vectorCount
    IN  IF totalResults < 10 THEN 30
        ELSE IF totalResults < 50 THEN 60
        ELSE 90

\* RRFFusion.getOptimalK(fts5Count, vectorCount): the whole call
OptimalKCall ==
    /\ optimal.pc = "idle"
    /\ \E fts5Count \in 0..MaxCount, vectorCount \in 0..MaxCount :
          optimal' = [pc |-> "returned", fts5Count |-> fts5Count,
                      vectorCount |-> vectorCount,
                      k |-> GetOptimalK(fts5Count, vectorCount)]
    /\ UNCHANGED <<calls, cache, enableCache, defaults, cohereClient, clock, issued,
                   firstReturn, direct, fusion, embedding, single, repo, combined, live, script, migration>>

\* the caller of getOptimalK has its answer
OptimalKReturn ==
    /\ optimal.pc = "returned"
    /\ optimal' = IdleOptimal
    /\ UNCHANGED <<calls, cache, enableCache, defaults, cohereClient, clock, issued,
                   firstReturn, direct, fusion, embedding, single, repo, combined, live, script, migration>>

NextOptimal == OptimalKCall \/ OptimalKReturn

SpecOptimal == InitOverlap /\ [][NextOptimal]_vars

\* ------------------------------------------- the reranker called on its own
\* candidate lists handed to rerank: ranked lists of nodes, one longer than
\* the document cap at most, and one list that is two longer
Candidates ==
    {NodeRows(rows, "fts5") :
        rows \in DistinctSeqs(Entities, MaxDocuments + 1) \cup {<<1, 2, 3>>}}

\* CohereReranker.rerank(query, documents): the whole call; initOk says whether
\* initializeCohere can create the client now
RerankCall ==
    /\ direct.pc = "idle"
    /\ \E query \in Queries, documents \in Candidates, initOk \in BOOLEAN,
          attempts \in AttemptLists("wide") :
          LET entered == documents # <<>> /\ Trim(query) # <<>>
              client == cohereClient \/ (entered /\ initOk)
              r == Rerank(query, documents, client, attempts)
          IN  /\ cohereClient' = client
              /\ direct' = [pc |-> "returned", query |-> query,
                            documents |-> documents, client |-> client,
                            attempts |-> attempts, results |-> r.results,
                            err |-> ~r.ok,
                            log |-> IF entered /\ client
                                    THEN RerankSchedule(attempts, 0) ELSE <<>>,
                            sent |-> IF entered /\ client
                                     THEN LimitedDocuments(documents) ELSE <<>>]
    /\ UNCHANGED <<calls, cache, enableCache, defaults, clock, issued, firstReturn,
                   fusion, embedding, single, repo, combined, optimal, live, script, migration>>

\* the caller of rerank has its answer
RerankReturn ==
    /\ direct.pc = "returned"
    /\ direct' = IdleDirect
    /\ UNCHANGED <<calls, cache, enableCache, defaults, cohereClient, clock, issued,
                   firstReturn,
                   fusion, embedding, single, repo, combined, optimal, live, script, migration>>

NextRerank == RerankCall \/ RerankReturn

SpecRerank == InitOverlap /\ [][NextRerank]_vars

\* ------------------------------------ the embedding service called on its own
\* EmbeddingService.generateEmbeddings(texts), up to its loop over the
\* batches: no texts give an empty result, a client that cannot be
\* initialised throws
GenerateEmbeddings ==
    /\ embedding.pc = "idle"
    /\ \E texts \in TextLists, initOk \in BOOLEAN :
          embedding' =
              IF texts = <<>>
              THEN [IdleEmbedding EXCEPT !.pc = "returned"]
              ELSE IF ~initOk
              THEN [IdleEmbedding EXCEPT !.pc = "returned", !.texts = texts, !.err = TRUE]
              ELSE [IdleEmbedding EXCEPT !.pc = "batches", !.texts = texts]
    /\ UNCHANGED <<calls, cache, enableCache, defaults, cohereClient, clock, issued,
                   firstReturn, direct, fusion, single, repo, combined, optimal, live, script, migration>>

\* one turn of the loop: processBatch(batches[i]) and the push of its vectors;
\* a batch that throws ends the call with the error
NextBatch ==
    /\ embedding.pc = "batches"
    /\ LET batches == CreateBatches(embedding.texts, BatchSize)
           batch == batches[embedding.i]
       IN  \E failures \in 0..EmbeddingMaxRetries, data \in ProviderData(batch) :
               LET batchResult == ProcessBatch(failures, data)
               IN  embedding' =
                       IF ~batchResult.ok
                       THEN [embedding EXCEPT
                               !.pc = "returned", !.err = TRUE, !.embeddings = <<>>,
                               !.log = embedding.log
                                       \o ProcessBatchSchedule(embedding.i, failures, 0)]
                       ELSE [embedding EXCEPT
                               !.pc = IF embedding.i < Len(batches)
                                      THEN "batches" ELSE "returned",
                               !.i = embedding.i + 1,
                               !.responses = Append(embedding.responses, data),
                               !.embeddings = embedding.embeddings \o batchResult.results,
                               !.log = embedding.log
                                       \o ProcessBatchSchedule(embedding.i, failures, 0)
                                       \o InterBatchDelay(embedding.i, Len(batches))]
    /\ UNCHANGED <<calls, cache, enableCache, defaults, cohereClient, clock, issued,
                   firstReturn, direct, fusion, single, repo, combined, optimal, live, script, migration>>

\* the caller of generateEmbeddings has its answer
EmbeddingsReturn ==
    /\ embedding.pc = "returned"
    /\ embedding' = IdleEmbedding
    /\ UNCHANGED <<calls, cache, enableCache, defaults, cohereClient, clock, issued,
                   firstReturn, direct, fusion, single, repo, combined, optimal, live, script, migration>>

NextEmbedding == GenerateEmbeddings \/ NextBatch \/ EmbeddingsReturn

SpecEmbedding == InitOverlap /\ [][NextEmbedding]_vars

\* ------------------------------------------------ getEmbedding and its cache
\* EmbeddingService.getEmbedding(text): the whole call
GetEmbedding ==
    /\ single.pc = "idle"
    /\ \E text \in Texts, initOk \in BOOLEAN, failures \in 0..EmbeddingMaxRetries,
          tokens \in TokenCounts :
        \E data \in ProviderData(<<text>>) :
          LET contentHash == GenerateContentHash(text)
              cached == IF contentHash \in DOMAIN single.cache
                        THEN Some(single.cache[contentHash]) ELSE None
              call == [single EXCEPT !.pc = "returned", !.text = text,
                                     !.before = cached, !.after = cached,
                                     !.at = single.now]
          IN  IF IsFresh(cached, single.now)
              THEN single' = [call EXCEPT
                                 !.requests = 0, !.err = FALSE,
                                 !.result = [embedding |-> cached[1].embedding,
                                             tokenCount |-> 0, cost |-> Zero]]
              ELSE LET openai == single.openai \/ initOk
                       batchResult == GenerateEmbeddingsOfOne(text, openai, failures,
                                                              data, tokens)
                       requests == IF ~openai THEN 0
                                   ELSE Min(failures + 1, EmbeddingMaxRetries)
                   IN  IF ~batchResult.ok \/ batchResult.embeddings = <<>>
                       THEN single' = [call EXCEPT
                                          !.openai = openai, !.requests = requests,
                                          !.err = TRUE, !.result = NoEmbeddingResult]
                       ELSE single' = [call EXCEPT
                                          !.openai = openai, !.requests = requests,
                                          !.err = FALSE,
                                          !.after =
                                              Some([embedding |-> batchResult.embeddings[1],
                                                    timestamp |-> single.now]),
                                          !.cache =
                                              [h \in DOMAIN single.cache \cup {contentHash} |->
                                                  IF h = contentHash
                                                  THEN [embedding |-> batchResult.embeddings[1],
                                                        timestamp |-> single.now]
                                                  ELSE single.cache[h]],
                                          !.result =
                                              [embedding |-> batchResult.embeddings[1],
                                               tokenCount |-> batchResult.totalTokens,
                                               cost |-> batchResult.totalCost]]
    /\ UNCHANGED <<calls, cache, enableCache, defaults, cohereClient, clock, issued,
                   firstReturn, direct, fusion, embedding, repo, combined, optimal, live, script, migration>>

\* the caller of getEmbedding has its answer
GetEmbeddingReturn ==
    /\ single.pc = "returned"
    /\ single' = [IdleSingle EXCEPT !.openai = single.openai, !.cache = single.cache,
                                    !.now = single.now]
    /\ UNCHANGED <<calls, cache, enableCache, defaults, cohereClient, clock, issued,
                   firstReturn, direct, fusion, embedding, repo, combined, optimal, live, script, migration>>

\* EmbeddingService.clearCache
ClearEmbeddingCache ==
    /\ single.cache # <<>>
    /\ single' = [single EXCEPT !.cache = <<>>]
    /\ UNCHANGED <<calls, cache, enableCache, defaults, cohereClient, clock, issued,
                   firstReturn, direct, fusion, embedding, repo, combined, optimal, live, script, migration>>

\* time passes
EmbeddingTick ==
    /\ \E t \in Instants : t > single.now /\ single' = [single EXCEPT !.now = t]
    /\ UNCHANGED <<calls, cache, enableCache, defaults, cohereClient, clock, issued,
                   firstReturn, direct, fusion, embedding, repo, combined, optimal, live, script, migration>>

NextSingle == GetEmbedding \/ GetEmbeddingReturn \/ ClearEmbeddingCache \/ EmbeddingTick

SpecSingle == InitOverlap /\ [][NextSingle]_vars

\* ------------------------------------------------------ the vector repository
\* the values a world w hands to the repository: "similar" varies the vectors,
\* "stale" the content hashes and lets a write fail
VectorsOf(w) == IF w = "similar" THEN StoredVectors ELSE {<<1, 0, 0>>}
HashesOf(w) ==
    IF w = "similar" THEN {GenerateContentHash("a")}
    ELSE {GenerateContentHash(t) : t \in RepoTexts}
RunOutcomes(w) == IF w = "similar" THEN {TRUE} ELSE BOOLEAN
TemplatesOf(w) == IF w = "similar" THEN Entities ELSE {1}

\* the entities the document store rewrites
Rewritten == {1}

RepoCall(op) ==
    [repo EXCEPT !.pc = "returned", !.op = op,
                 !.before = [nodes |-> repo.nodes, templates |-> repo.templates],
                 !.id = 0, !.queryVector = <<>>, !.limit = 0, !.threshold = Zero,
                 !.batch = <<>>, !.failAt = 0, !.results = <<>>, !.err = FALSE]

\* VectorRepository.saveEmbedding: stmt.run writes the row, or throws and the
\* error is thrown on
SaveEmbedding(w) ==
    /\ repo.pc = "idle"
    /\ \E nodeType \in Entities, vector \in VectorsOf(w), contentHash \in HashesOf(w),
          runOk \in RunOutcomes(w) :
          repo' = [RepoCall("saveEmbedding") EXCEPT
                      !.id = nodeType,
                      !.err = ~runOk,
                      !.nodes = IF runOk
                                THEN RunSave(repo.nodes, nodeType, vector, contentHash,
                                             repo.now)
                                ELSE repo.nodes]
    /\ UNCHANGED <<calls, cache, enableCache, defaults, cohereClient, clock, issued,
                   firstReturn, direct, fusion, embedding, single, combined, optimal, live, script, migration>>

\* VectorRepository.saveTemplateEmbedding
SaveTemplateEmbedding(w) ==
    /\ repo.pc = "idle"
    /\ \E templateId \in TemplatesOf(w), vector \in VectorsOf(w), contentHash \in HashesOf(w),
          runOk \in RunOutcomes(w) :
          repo' = [RepoCall("saveTemplateEmbedding") EXCEPT
                      !.id = templateId,
                      !.err = ~runOk,
                      !.templates = IF runOk
                                    THEN RunSave(repo.templates, templateId, vector,
                                                 contentHash, repo.now)
                                    ELSE repo.templates]
    /\ UNCHANGED <<calls, cache, enableCache, defaults, cohereClient, clock, issued,
                   firstReturn, direct, fusion, embedding, single, combined, optimal, live, script, migration>>

\* the batches handed to batchSaveEmbeddings: records of different nodes
Batches ==
    {[k \in DOMAIN ids |-> [nodeType |-> ids[k], embedding |-> <<1, 0, 0>>,
                            contentHash |-> GenerateContentHash(t)]] :
        ids \in DistinctSeqs(Entities, Cardinality(Entities)) \ {<<>>}, t \in RepoTexts}

\* VectorRepository.batchSaveEmbeddings: the whole call
BatchSave ==
    /\ repo.pc = "idle"
    /\ \E embeddings \in Batches :
        \E failAt \in 0..Len(embeddings) :
          LET r == BatchSaveEmbeddings(repo.nodes, embeddings, failAt, repo.now)
          IN  repo' = [RepoCall("batchSaveEmbeddings") EXCEPT
                          !.batch = embeddings, !.failAt = failAt, !.err = ~r.ok,
                          !.nodes = r.table]
    /\ UNCHANGED <<calls, cache, enableCache, defaults, cohereClient, clock, issued,
                   firstReturn, direct, fusion, embedding, single, combined, optimal, live, script, migration>>

\* VectorRepository.findSimilarNodes: the whole call
FindNodes ==
    /\ repo.pc = "idle"
    /\ \E queryVector \in QueryVectors, limit \in 0..MaxSimilar, threshold \in Thresholds :
          repo' = [RepoCall("findSimilarNodes") EXCEPT
                      !.queryVector = queryVector, !.limit = limit,
                      !.threshold = threshold,
                      !.results = FindSimilarNodes(repo.nodes, queryVector, limit,
                                                   threshold)]
    /\ UNCHANGED <<calls, cache, enableCache, defaults, cohereClient, clock, issued,
                   firstReturn, direct, fusion, embedding, single, combined, optimal, live, script, migration>>

\* VectorRepository.findSimilarTemplates: the whole call
FindTemplates ==
    /\ repo.pc = "idle"
    /\ \E queryVector \in QueryVectors, limit \in 0..MaxSimilar, threshold \in Thresholds :
          repo' = [RepoCall("findSimilarTemplates") EXCEPT
                      !.queryVector = queryVector, !.limit = limit,
                      !.threshold = threshold,
                      !.results = FindSimilarTemplates(repo.templates, queryVector, limit,
                                                       threshold)]
    /\ UNCHANGED <<calls, cache, enableCache, defaults, cohereClient, clock, issued,
                   firstReturn, direct, fusion, embedding, single, combined, optimal, live, script, migration>>

\* VectorRepository.getNodesNeedingEmbeddings
GetNodesNeedingEmbeddings ==
    /\ repo.pc = "idle"
    /\ repo' = [RepoCall("getNodesNeedingEmbeddings") EXCEPT
                   !.results = GetNeedingEmbeddings(repo.nodes)]
    /\ UNCHANGED <<calls, cache, enableCache, defaults, cohereClient, clock, issued,
                   firstReturn, direct, fusion, embedding, single, combined, optimal, live, script, migration>>

\* VectorRepository.getTemplatesNeedingEmbeddings
GetTemplatesNeedingEmbeddings ==
    /\ repo.pc = "idle"
    /\ repo' = [RepoCall("getTemplatesNeedingEmbeddings") EXCEPT
                   !.results = GetNeedingEmbeddings(repo.templates)]
    /\ UNCHANGED <<calls, cache, enableCache, defaults, cohereClient, clock, issued,
                   firstReturn, direct, fusion, embedding, single, combined, optimal, live, script, migration>>

\* the caller of the repository has its answer
RepoReturn ==
    /\ repo.pc = "returned"
    /\ repo' = [IdleRepo EXCEPT !.nodes = repo.nodes, !.templates = repo.templates,
                                !.now = repo.now]
    /\ UNCHANGED <<calls, cache, enableCache, defaults, cohereClient, clock, issued,
                   firstReturn, direct, fusion, embedding, single, combined, optimal, live, script, migration>>

\* the document store rewrites an entity: its searchable text changes and
\* updated_at is set to the time of the write
UpdateNode ==
    /\ \E e \in Rewritten, text \in RepoTexts :
          /\ text # repo.nodes[e].text
          /\ repo' = [repo EXCEPT !.nodes[e].text = text, !.nodes[e].updatedAt = repo.now,
                                  !.nodes[e].savedCurrent = FALSE]
    /\ UNCHANGED <<calls, cache, enableCache, defaults, cohereClient, clock, issued,
                   firstReturn, direct, fusion, embedding, single, combined, optimal, live, script, migration>>

UpdateTemplate ==
    /\ \E e \in Rewritten, text \in RepoTexts :
          /\ text # repo.templates[e].text
          /\ repo' = [repo EXCEPT !.templates[e].text = text,
                                  !.templates[e].updatedAt = repo.now,
                                  !.templates[e].savedCurrent = FALSE]
    /\ UNCHANGED <<calls, cache, enableCache, defaults, cohereClient, clock, issued,
                   firstReturn, direct, fusion, embedding, single, combined, optimal, live, script, migration>>

\* a second passes
RepoTick ==
    /\ repo.now < MaxRepoClock
    /\ repo' = [repo EXCEPT !.now = repo.now + 1]
    /\ UNCHANGED <<calls, cache, enableCache, defaults, cohereClient, clock, issued,
                   firstReturn, direct, fusion, embedding, single, combined, optimal, live, script, migration>>

\* the similarity scans over what has been saved
NextSimilar ==
    \/ SaveEmbedding("similar")
    \/ SaveTemplateEmbedding("similar")
    \/ FindNodes
    \/ FindTemplates
    \/ RepoReturn

SpecSimilar == InitOverlap /\ [][NextSimilar]_vars

\* saving, batch saving and the query for what needs an embedding, while the
\* document store changes
NextStale ==
    \/ SaveEmbedding("stale")
    \/ SaveTemplateEmbedding("stale")
    \/ BatchSave
    \/ GetNodesNeedingEmbeddings
    \/ GetTemplatesNeedingEmbeddings
    \/ RepoReturn
    \/ UpdateNode
    \/ UpdateTemplate
    \/ RepoTick

SpecStale == InitOverlap /\ [][NextStale]_vars

\* --------------------------------- both clients that retry, side by side
\* ------------------------------------------------------ generate-embeddings
\* the rows a table can hold when a run begins: never embedded; embedded and
\* up to date; embedded, touched since, with the same text; embedded and
\* touched since with another text
StoredRow(text, hashed, generatedAt, updatedAt) ==
    [vector |-> Some(BufferFrom(<<0, 1, 0>>)), hash |-> Some(GenerateContentHash(hashed)),
     generatedAt |-> Some(generatedAt), updatedAt |-> updatedAt, text |-> text,
     savedCurrent |-> (text = hashed /\ updatedAt <= generatedAt)]

ScriptRows ==
    {NewRow, StoredRow("a", "a", MaxRepoClock, 0), StoredRow("a", "a", 0, MaxRepoClock),
     StoredRow("b", "a", 0, MaxRepoClock)}

ScriptOptions ==
    [forceRegenerate : BOOLEAN, dryRun : BOOLEAN,
     batchSize : {None, Some(1), Some(BatchSize)},
     nodeTypes : {None, Some({}), Some({1}), Some({2})}]

\* the rows getNodesNeedingEmbeddings / getTemplatesNeedingEmbeddings give the
\* script: the id, the stored hash and the fields the content is made of; a
\* query that throws is answered with []
NeedingRows(table, queryOk) ==
    IF ~queryOk THEN <<>>
    ELSE LET rows == GetNeedingEmbeddings(table)
         IN  [k \in DOMAIN rows |->
                 [id |-> rows[k].id, current_hash |-> rows[k].current_hash,
                  text |-> table[rows[k].id].text]]

\* EmbeddingService.prepareEmbeddingContent: the text and its hash
PrepareEmbeddingContent(row) ==
    [content |-> row.text, contentHash |-> GenerateContentHash(row.text)]

\* `nodes.filter(node => options.nodeTypes.includes(node.node_type))`, applied
\* only when nodeTypes is given and not empty
FilterNodeTypes(nodes, options) ==
    IF options.nodeTypes # None /\ options.nodeTypes[1] # {}
    THEN SelectSeq(nodes, LAMBDA node : node.id \in options.nodeTypes[1])
    ELSE nodes

\* `options.batchSize || 50` and the slicing loop
ScriptBatches(rows, options) ==
    CreateBatches(rows, IF options.batchSize = None THEN ScriptBatchSize
                        ELSE options.batchSize[1])

\* a run that regenerates whatever the query returned
SkipNever(options, row) == FALSE

\* `!options.forceRegenerate && node.current_hash === content.contentHash`
SkipUnchanged(options, row) ==
    /\ ~options.forceRegenerate
    /\ row.current_hash = Some(PrepareEmbeddingContent(row).contentHash)

IdsOf(rows) == [k \in DOMAIN rows |-> rows[k].id]

\* the records built from the provider's vectors and the rows kept
EmbeddingsToSave(rowsToSave) ==
    [k \in DOMAIN rowsToSave |->
        [nodeType |-> rowsToSave[k].id, embedding |-> <<1, 0, 0>>,
         contentHash |-> PrepareEmbeddingContent(rowsToSave[k]).contentHash]]

\* the saving of one batch: nodes go through batchSaveEmbeddings (one
\* transaction), templates through one saveTemplateEmbedding after the other
SaveBatch(kind, table, embeddings, failAt, now) ==
    IF kind = "node" THEN BatchSaveEmbeddings(table, embeddings, failAt, now)
    ELSE RunBatch(table, embeddings, 1, failAt, now)

\* `stats.failed += batch.length` of the catch block: the rows it counts
FailedOfBatch(batch, options) == batch

\* one pass of the loop over the batches (the body of the for statement of
\* generateNodeEmbeddings / generateTemplateEmbeddings); providerOk: whether
\* generateEmbeddings answers; failAt: the save that throws (0: none)
ScriptBatchDone(s, batch, providerOk, failAt) ==
    LET skipped == SelectSeq(batch, LAMBDA row : SkipUnchanged(s.options, row))
        rowsToSave == SelectSeq(batch, LAMBDA row : ~SkipUnchanged(s.options, row))
        afterSkip == [s EXCEPT !.stats.skipped = @ + Len(skipped),
                               !.counted.skipped = @ \o IdsOf(skipped)]
        asked == [afterSkip EXCEPT
                     !.sent = @ \o [k \in DOMAIN rowsToSave |->
                                       [id |-> rowsToSave[k].id,
                                        content |->
                                          PrepareEmbeddingContent(rowsToSave[k]).content]]]
        failed == FailedOfBatch(batch, s.options)
        caught(t) == [asked EXCEPT !.table = t,
                                   !.stats.failed = @ + Len(failed),
                                   !.counted.failed = @ \o IdsOf(failed)]
        saved == SaveBatch(s.kind, s.table, EmbeddingsToSave(rowsToSave), failAt, s.now)
    IN  IF s.options.dryRun
        THEN [s EXCEPT !.stats.processed = @ + Len(batch),
                       !.counted.processed = @ \o IdsOf(batch)]
        ELSE IF rowsToSave = <<>> THEN afterSkip
        ELSE IF ~providerOk THEN caught(s.table)
        ELSE IF ~saved.ok THEN caught(saved.table)
        ELSE [asked EXCEPT !.table = saved.table,
                           !.stats.processed = @ + Len(rowsToSave),
                           !.counted.processed = @ \o IdsOf(rowsToSave)]

\* the start of a run up to the loop: the query, stats.total, the early return
\* on no rows, the nodeTypes filter (nodes only) and the batches
ScriptBegun(kind, table, options, queryOk) ==
    LET rows == NeedingRows(table, queryOk)
        toProcess == IF kind = "node" THEN FilterNodeTypes(rows, options) ELSE rows
        batches == ScriptBatches(toProcess, options)
    IN  [IdleScript EXCEPT
            !.pc = IF rows = <<>> \/ batches = <<>> THEN "done" ELSE "batches",
            !.kind = kind, !.table = table, !.before = table,
            !.now = MaxRepoClock + 1, !.options = options,
            !.batches = IF rows = <<>> THEN <<>> ELSE batches,
            !.stats = [NoStats EXCEPT !.total = Len(rows)]]

\* generateNodeEmbeddings(vectorRepository, embeddingService, options) is called
GenerateNodeEmbeddings ==
    /\ script.pc = "idle"
    /\ \E table \in [Entities -> ScriptRows], options \in ScriptOptions, queryOk \in BOOLEAN :
          script' = ScriptBegun("node", table, options, queryOk)
    /\ UNCHANGED <<calls, cache, enableCache, defaults, cohereClient, clock, issued,
                   firstReturn, direct, fusion, embedding, single, repo, combined,
                   optimal, live, migration>>

\* generateTemplateEmbeddings(vectorRepository, embeddingService, options) is
\* called
GenerateTemplateEmbeddings ==
    /\ script.pc = "idle"
    /\ \E table \in [Entities -> ScriptRows], options \in ScriptOptions, queryOk \in BOOLEAN :
          script' = ScriptBegun("template", table, options, queryOk)
    /\ UNCHANGED <<calls, cache, enableCache, defaults, cohereClient, clock, issued,
                   firstReturn, direct, fusion, embedding, single, repo, combined,
                   optimal, live, migration>>

\* the next batch is processed
ScriptBatch ==
    /\ script.pc = "batches"
    /\ LET batch == script.batches[script.batchIndex]
       IN  \E providerOk \in BOOLEAN, failAt \in 0..Len(batch) :
              script' = [ScriptBatchDone(script, batch, providerOk, failAt) EXCEPT
                            !.batchIndex = @ + 1,
                            !.pc = IF script.batchIndex < Len(script.batches)
                                   THEN "batches" ELSE "done"]
    /\ UNCHANGED <<calls, cache, enableCache, defaults, cohereClient, clock, issued,
                   firstReturn, direct, fusion, embedding, single, repo, combined,
                   optimal, live, migration>>

\* `return stats`
ScriptReturn ==
    /\ script.pc = "done"
    /\ script' = IdleScript
    /\ UNCHANGED <<calls, cache, enableCache, defaults, cohereClient, clock, issued,
                   firstReturn, direct, fusion, embedding, single, repo, combined,
                   optimal, live, migration>>

NextScript ==
    \/ GenerateNodeEmbeddings
    \/ GenerateTemplateEmbeddings
    \/ ScriptBatch
    \/ ScriptReturn

SpecScript == InitOverlap /\ [][NextScript]_vars

\* ------------------------------------------------- DatabaseMigrationUtils
\* schema-semantic.sql as a list of statements, each ended by ';': ordinary
\* statements (ALTER TABLE, CREATE INDEX, CREATE TABLE, DROP TRIGGER, SELECT),
\* CREATE VIEW statements, and CREATE TRIGGER statements, whose body
\* `BEGIN ...; END;` holds ';' itself; commented: the statement follows
\* comment lines
SqlStatement(kind, commented) == [kind |-> kind, commented |-> commented]

SqlFiles ==
    UNION {[1..n -> {SqlStatement(kind, commented) :
                        kind \in {"plain", "view", "trigger"}, commented \in BOOLEAN}] :
              n \in 1..MaxStatements}

\* `migrationSql.split(';').map(stmt => stmt.trim())`: a trigger is cut inside
\* its body, into the text up to the body's first ';' and the text `END`
RECURSIVE SplitSql(_)
SplitSql(file) ==
    IF file = <<>> THEN <<>>
    ELSE (IF Head(file).kind = "trigger"
          THEN <<SqlStatement("triggerHead", Head(file).commented),
                 SqlStatement("end", FALSE)>>
          ELSE <<Head(file)>>)
         \o SplitSql(Tail(file))

\* `.filter(stmt => stmt.length > 0 && !stmt.startsWith('--'))`
KeepStatement(piece) == ~piece.commented

Statements(file) == SelectSeq(SplitSql(file), KeepStatement)

\* `statement.toLowerCase().includes('create view') || ...('create trigger')`
IsNonCritical(statement) == statement.kind \in {"view", "triggerHead"}

\* db.exec on SQLite. BEGIN TRANSACTION fails inside a transaction; COMMIT and
\* its alias END make the pending changes durable and fail when no
\* transaction is open; ROLLBACK drops the pending changes and fails when no
\* transaction is open
ExecBegin(db) ==
    IF db.inTransaction THEN [ok |-> FALSE, db |-> db]
    ELSE [ok |-> TRUE, db |-> [db EXCEPT !.inTransaction = TRUE, !.pending = {}]]

ExecCommit(db) ==
    IF ~db.inTransaction THEN [ok |-> FALSE, db |-> db]
    ELSE [ok |-> TRUE, db |-> [db EXCEPT !.inTransaction = FALSE, !.pending = {},
                                         !.durable = @ \cup db.pending]]

ExecRollback(db) ==
    IF ~db.inTransaction THEN [ok |-> FALSE, db |-> db]
    ELSE [ok |-> TRUE, db |-> [db EXCEPT !.inTransaction = FALSE, !.pending = {}]]

\* db.exec(statement) for the statement at `position`: a complete statement
\* runs (runs: whether SQLite accepts it) and its change is pending inside a
\* transaction and durable outside one; the cut head of a trigger is
\* incomplete input; `END` commits
ExecSql(db, statement, position, runs) ==
    IF statement.kind = "end" THEN ExecCommit(db)
    ELSE IF statement.kind = "triggerHead" \/ ~runs THEN [ok |-> FALSE, db |-> db]
    ELSE [ok |-> TRUE,
          db |-> IF db.inTransaction THEN [db EXCEPT !.pending = @ \cup {position}]
                 ELSE [db EXCEPT !.durable = @ \cup {position}]]

MigrationOptions == [createBackup : BOOLEAN, forceReapply : BOOLEAN, dryRun : BOOLEAN]

\* what can fail outside the statements, one thing per call: the creation of
\* migration_history, the read of it, the backup, the read of the SQL file
MigrationFaults == {"none", "table", "read", "backup", "file"}

Failure == [success |-> FALSE, applied |-> FALSE]

\* `if (currentMigration && !options.forceReapply)`
AlreadyApplied(currentMigration, options) ==
    currentMigration /\ ~options.forceReapply

\* migrateToSemanticSearch up to the loop over the statements of
\* applySemanticSearchMigration: the history table, the early return on a
\* recorded migration, the backup, the dry run, BEGIN TRANSACTION and the
\* reading and splitting of the SQL file
MigrationBegun(m, options, file, fault, valid) ==
    LET call == [IdleMigration EXCEPT !.db = m.db, !.before = m.db,
                                      !.options = options, !.fault = fault,
                                      !.started = m.started + 1]
        returned(result) == [call EXCEPT !.pc = "returned", !.result = result]
        currentMigration == m.db.recorded /\ fault # "read"
        begun == ExecBegin(m.db)
    IN  IF fault = "table" THEN returned(Failure)
        ELSE IF AlreadyApplied(currentMigration, options)
        THEN returned([success |-> TRUE, applied |-> FALSE])
        ELSE IF options.createBackup /\ ~options.dryRun /\ fault = "backup"
        THEN returned(Failure)
        ELSE IF options.dryRun THEN returned([success |-> valid, applied |-> FALSE])
        ELSE IF ~begun.ok THEN returned(Failure)
        ELSE IF fault = "file"
        THEN [returned(Failure) EXCEPT !.db = ExecRollback(begun.db).db]
        ELSE [call EXCEPT !.pc = "statements", !.db = begun.db,
                          !.statements = Statements(file)]

\* migrateToSemanticSearch(options) is called
MigrateToSemanticSearch ==
    /\ migration.pc = "idle"
    /\ migration.started < MaxMigrations
    /\ \E options \in MigrationOptions, file \in SqlFiles, fault \in MigrationFaults,
          valid \in BOOLEAN :
          migration' = MigrationBegun(migration, options, file, fault, valid)
    /\ UNCHANGED <<calls, cache, enableCache, defaults, cohereClient, clock, issued,
                   firstReturn, direct, fusion, embedding, single, repo, combined,
                   optimal, live, script>>

\* one pass of `for (const statement of statements)`: a statement that fails
\* adds an error unless it is a view or trigger creation
ExecStatement ==
    /\ migration.pc = "statements"
    /\ migration.next <= Len(migration.statements)
    /\ \E runs \in BOOLEAN :
          LET statement == migration.statements[migration.next]
              r == ExecSql(migration.db, statement, migration.next, runs)
          IN  migration' = [migration EXCEPT
                               !.db = r.db,
                               !.next = @ + 1,
                               !.errors = IF ~r.ok /\ ~IsNonCritical(statement)
                                          THEN @ + 1 ELSE @]
    /\ UNCHANGED <<calls, cache, enableCache, defaults, cohereClient, clock, issued,
                   firstReturn, direct, fusion, embedding, single, repo, combined,
                   optimal, live, script>>

\* the end of applySemanticSearchMigration and of migrateToSemanticSearch:
\* COMMIT when there is no error, ROLLBACK otherwise; an exec that throws is
\* caught and followed by a ROLLBACK whose own failure is swallowed; after a
\* COMMIT the migration is recorded, and a recordMigration that throws is
\* caught by migrateToSemanticSearch
MigrationSettled(m, recordOk) ==
    LET commit == ExecCommit(m.db)
        rollback == ExecRollback(m.db)
    IN  IF m.errors = 0 /\ commit.ok
        THEN [m EXCEPT !.pc = "returned", !.committed = TRUE,
                       !.db = [commit.db EXCEPT !.recorded = @ \/ recordOk],
                       !.recordedNow = recordOk,
                       !.result = IF recordOk THEN [success |-> TRUE, applied |-> TRUE]
                                  ELSE Failure]
        ELSE [m EXCEPT !.pc = "returned", !.db = rollback.db, !.result = Failure]

MigrationSettle ==
    /\ migration.pc = "statements"
    /\ migration.next > Len(migration.statements)
    /\ \E recordOk \in BOOLEAN : migration' = MigrationSettled(migration, recordOk)
    /\ UNCHANGED <<calls, cache, enableCache, defaults, cohereClient, clock, issued,
                   firstReturn, direct, fusion, embedding, single, repo, combined,
                   optimal, live, script>>

\* the caller has its MigrationResult
MigrationReturn ==
    /\ migration.pc = "returned"
    /\ migration' = [IdleMigration EXCEPT !.db = migration.db,
                                          !.started = migration.started]
    /\ UNCHANGED <<calls, cache, enableCache, defaults, cohereClient, clock, issued,
                   firstReturn, direct, fusion, embedding, single, repo, combined,
                   optimal, live, script>>

NextMigration ==
    \/ MigrateToSemanticSearch
    \/ ExecStatement
    \/ MigrationSettle
    \/ MigrationReturn

SpecMigration == InitOverlap /\ [][NextMigration]_vars

NextRetry ==
    \/ GenerateEmbeddings
    \/ NextBatch
    \/ EmbeddingsReturn
    \/ RerankCall
    \/ RerankReturn

SpecRetry == InitOverlap /\ [][NextRetry]_vars

\* ------------------------------------------------------------------- claims
Has(trace, e) == \E i \in DOMAIN trace : trace[i] = e
Count(trace, e) == Cardinality({i \in DOMAIN trace : trace[i] = e})

\* what a search can invoke besides the cache
Components ==
    {"fts5", "vector", "isVectorStorageReady", "getEmbedding", "findSimilar",
     "fuseResults", "isAvailable", "rerank"}

BothMethods(call) == Pipeline(call.options).fts5 /\ Pipeline(call.options).vector
VectorFailed(call) == call.vout \in {"notReady", "embedding", "scan"}

\* stage 2 has just run: its two input lists are still at hand
JustFused(call) == call.pc \in {"available", "truncate"} /\ call.avail = "none"

\* C1: with the cache enabled, once a search has returned a list, a later
\* search with the same key, issued within the TTL and with no clearCache in
\* between, returns that same list and invokes no search, embedding, fusion or
\* reranking.
C1_CachedSearchRepeats ==
    \A c \in Slots :
        LET call == calls[c]
        IN  (enableCache /\ call.pc = "done" /\ ~call.blank /\ call.prior # None)
            => /\ ~call.err
               /\ call.results = call.prior[1]
               /\ \A i \in DOMAIN call.trace : call.trace[i] \notin Components

\* C2: when both methods are enabled and the vector search fails or is
\* unavailable (storage not ready, embedding error, scan error), search raises
\* no error and the list it goes on with is the lexical list alone.
C2_VectorFailureFallsBack ==
    \A c \in Slots :
        LET call == calls[c]
        IN  (call.corpus = "nodes" /\ BothMethods(call) /\ VectorFailed(call))
            => /\ ~call.err
               /\ call.pc = "fuse" => call.vec = <<>>
               /\ JustFused(call) =>
                      /\ call.fused = call.fts
                      /\ ~Has(call.trace, "fuseResults")
               /\ call.pc = "done" => Has(call.trace, "truncate")

C2_Witness ==
    \E c \in Slots :
        LET call == calls[c]
        IN  /\ call.corpus = "nodes" /\ BothMethods(call)
            /\ call.vout = "embedding"
            /\ JustFused(call)
            /\ call.fts # <<>>
            /\ call.fused = call.fts

\* a rerank call got as far as the provider, and what the provider's answer
\* was: the first attempt that did not throw, among the first MaxRetries
Entered(d) == d.pc = "returned" /\ d.documents # <<>> /\ Trim(d.query) # <<>>
Tried(d) == Slice(d.attempts, MaxRetries)
AllThrow(d) == \A i \in DOMAIN Tried(d) : Tried(d)[i].kind = "throws"
Answered(d) ==
    Tried(d)[CHOOSE i \in DOMAIN Tried(d) :
                /\ Tried(d)[i].kind # "throws"
                /\ \A j \in 1..(i - 1) : Tried(d)[j].kind = "throws"]
Malformed(d) ==
    \/ Answered(d).kind = "noResults"
    \/ \E i \in DOMAIN Answered(d).results :
          DocumentAt(LimitedDocuments(d.documents), Answered(d).results[i].index) = None
RerankFailed(d) == ~d.client \/ AllThrow(d) \/ Malformed(d)

\* C3: if reranking fails for any reason (no client, every attempt failing,
\* or a malformed response: results missing, or an index that refers to no
\* candidate), rerank raises no error and returns the original candidate list.
C3_RerankFailurePassesThrough ==
    (Entered(direct) /\ RerankFailed(direct))
    => (~direct.err /\ direct.results = direct.documents)

\* the part of C3 that the code keeps: without a client, with every attempt
\* failing or with the results missing, the original list comes back
C3_OtherFailuresPassThrough ==
    (Entered(direct)
     /\ (~direct.client \/ AllThrow(direct) \/ Answered(direct).kind = "noResults"))
    => (~direct.err /\ direct.results = direct.documents)

\* C4: a search with reranking disabled, and a search with reranking enabled
\* whose reranker reports itself unavailable, return the fused (or
\* single-method) list cut to limit: same elements, order and scores.
C4_NoRerankReturnsFused ==
    \A c \in Slots :
        LET call == calls[c]
        IN  (call.pc = "done" /\ Has(call.trace, "truncate")
             /\ (~call.options.enableReranking \/ call.avail = "no"))
            => /\ ~call.err
               /\ call.results = Slice(call.fused, call.options.limit)

C4_Witness ==
    \E c \in Slots :
        LET call == calls[c]
        IN  /\ call.pc = "done"
            /\ call.options.enableReranking /\ call.avail = "no"
            /\ Has(call.trace, "fuseResults")
            /\ Len(call.fused) > call.options.limit
            /\ call.results = Slice(call.fused, call.options.limit)
            /\ call.results # <<>>

\* C5: search ends with an error exactly when the vector search is the only
\* enabled method and the query embedding cannot be generated; in every other
\* configuration an embedding failure is no error.
C5_EmbeddingFailureIsAnError ==
    \A c \in Slots :
        LET call == calls[c]
        IN  (call.corpus = "nodes" /\ call.pc = "done" /\ call.vout = "embedding")
            => (call.err <=> call.options.searchMethods = <<"vector">>)

\* the part of C5 that the code keeps: with the lexical search enabled too, an
\* embedding failure is no error
C5_HybridEmbeddingFailureIsNoError ==
    \A c \in Slots :
        LET call == calls[c]
        IN  (call.corpus = "nodes" /\ call.pc = "done" /\ call.vout = "embedding"
             /\ BothMethods(call))
            => ~call.err

\* C6: for an empty or whitespace-only query, search and searchTemplates
\* return an empty list and no error, and touch neither the cache nor any
\* search, embedding, fusion or reranking component.
C6_BlankQueryReturnsEmpty ==
    \A c \in Slots :
        LET call == calls[c]
        IN  (call.pc # "idle" /\ (call.blank \/ Trim(call.query) = <<>>))
            => /\ call.pc = "done"
               /\ call.results = <<>>
               /\ ~call.err
               /\ call.trace = <<>>

C6_Witness ==
    \E c \in Slots :
        LET call == calls[c]
        IN  /\ call.pc = "done" /\ call.blank
            /\ call.query = <<" ">>
            /\ call.corpus = "templates"
            /\ call.results = <<>> /\ call.trace = <<>>
            /\ enableCache /\ cache # <<>>

\* C7: every list search or searchTemplates returns, computed or cached, has
\* at most `limit` elements, whatever the reranker returned or appended.
C7_AtMostLimit ==
    \A c \in Slots :
        LET call == calls[c]
        IN  (call.pc = "done" /\ ~call.err)
            => Len(call.results) <= call.options.limit

C7_Witness ==
    \E c \in Slots :
        LET call == calls[c]
        IN  /\ call.pc = "done" /\ ~call.err
            /\ call.avail = "yes"
            /\ Len(call.final) > call.options.limit
            /\ Len(call.results) = call.options.limit
            /\ call.options.limit > 0

\* C8: in a search that misses the cache, fuseResults is invoked if and only
\* if both methods are enabled and both returned a non-empty list, and at most
\* once.
C8_FusionIffBothNonEmpty ==
    \A c \in Slots :
        LET call == calls[c]
        IN  /\ Count(call.trace, "fuseResults") <= 1
            /\ JustFused(call)
               => (Has(call.trace, "fuseResults")
                   <=> (BothMethods(call) /\ call.fts # <<>> /\ call.vec # <<>>))

C8_Witness ==
    \E c \in Slots :
        LET call == calls[c]
        IN  /\ JustFused(call)
            /\ BothMethods(call) /\ call.fts # <<>> /\ call.vec # <<>>
            /\ Count(call.trace, "fuseResults") = 1

\* C9: when exactly one of the two searches yields a non-empty list, the list
\* handed to the rerank/truncate stage is that list unchanged: elements,
\* order, scores and searchMethod labels.
C9_SingleListUnchanged ==
    \A c \in Slots :
        LET call == calls[c]
        IN  JustFused(call)
            => /\ (call.fts # <<>> /\ call.vec = <<>>) => call.fused = call.fts
               /\ (call.vec # <<>> /\ call.fts = <<>>) => call.fused = call.vec

C9_Witness ==
    \E c \in Slots :
        LET call == calls[c]
        IN  /\ JustFused(call)
            /\ BothMethods(call)
            /\ call.fts = <<>> /\ Len(call.vec) = 2
            /\ call.fused = call.vec

\* C10: rerank is invoked only in a search where enableReranking is true and
\* isAvailable() answered true; when isAvailable() answers false, rerank is
\* not called and the search goes on without error.
C10_RerankOnlyWhenAvailable ==
    \A c \in Slots :
        LET call == calls[c]
        IN  /\ Has(call.trace, "rerank")
               => (call.options.enableReranking /\ call.avail = "yes")
            /\ call.avail = "no"
               => /\ ~Has(call.trace, "rerank")
                  /\ ~call.err
                  /\ call.pc \in {"truncate", "done"}

C10_Witness ==
    \E c \in Slots :
        LET call == calls[c]
        IN  /\ call.avail = "no"
            /\ call.pc = "done"
            /\ Has(call.trace, "isAvailable")
            /\ call.results # <<>>

\* the stage an invocation belongs to: cache lookup, dispatch of the two
\* searches, the vector search's own steps, fusion, reranking, truncation,
\* cache write
StageOf(e) ==
    CASE e = "cacheGet" -> 0
      [] e \in {"fts5", "vector"} -> 1
      [] e \in {"isVectorStorageReady", "getEmbedding", "findSimilar"} -> 2
      [] e = "fuseResults" -> 3
      [] e \in {"isAvailable", "rerank"} -> 4
      [] e = "truncate" -> 5
      [] e = "cacheSet" -> 6

InStageOrder(trace) ==
    \A i, j \in DOMAIN trace : i < j => StageOf(trace[i]) <= StageOf(trace[j])

\* a call that missed the cache and is past the dispatch of its searches
Missed(call) ==
    call.pc \notin {"idle"} /\ ~call.blank /\ call.trace # <<"cacheGet">>

StagesInOrder(call) ==
    Missed(call) =>
        /\ InStageOrder(call.trace)
        \* both enabled searches are started at the dispatch
        /\ Includes(call.options.searchMethods, "fts5") => Has(call.trace, "fts5")
        /\ Includes(call.options.searchMethods, "vector") => Has(call.trace, "vector")
        \* stage 2 and what follows come after the vector search has completed
        /\ (Includes(call.options.searchMethods, "vector")
            /\ (call.pc \in {"fuse", "available", "rerank", "truncate"}
                \/ Has(call.trace, "truncate")))
           => call.vout # "none"
        \* the reranker is asked only after stage 2, truncation is last but
        \* for the cache write
        /\ Has(call.trace, "isAvailable") => call.pc # "fuse"
        /\ Has(call.trace, "truncate") => call.pc = "done"
        /\ Has(call.trace, "cacheSet") => Has(call.trace, "truncate")

\* C11: in a search that misses the cache the stages come in a fixed order:
\* both enabled searches are started, stage 2 (fusion or bypass) comes after
\* both have completed, reranking (or its skip) after stage 2, truncation
\* after reranking, the cache write after truncation and before the return;
\* and the list written to the cache is the list returned.
C11_StagesInOrder ==
    [][\A c \in Slots :
          /\ StagesInOrder(calls'[c])
          /\ (calls[c].pc = "truncate" /\ calls'[c].pc = "done" /\ enableCache)
             => /\ calls[c].key \in DOMAIN cache'
                /\ cache'[calls[c].key].value = calls'[c].results
                /\ Has(calls'[c].trace, "cacheSet")]_vars

C11_Witness ==
    \E c \in Slots :
        LET call == calls[c]
        IN  /\ call.pc = "done" /\ enableCache
            /\ call.trace = <<"cacheGet", "fts5", "vector", "isVectorStorageReady",
                              "getEmbedding", "findSimilar", "fuseResults",
                              "isAvailable", "rerank", "truncate", "cacheSet">>
            /\ call.key \in DOMAIN cache
            /\ cache[call.key].value = call.results
            /\ call.results # <<>>

\* C12: when the write of the computed list to the cache fails, search still
\* returns the computed list and raises no error. A call that got as far as
\* the cache write holds the computed (truncated) list in `final` when the
\* write failed, and in `results` when it did not.
C12_CacheWriteFailureSwallowed ==
    \A c \in Slots :
        LET call == calls[c]
        IN  (call.pc = "done" /\ Has(call.trace, "cacheSet"))
            => /\ ~call.err
               /\ call.results = Slice(call.final, call.options.limit)

\* a list of node results / of template results (by the shape of its elements)
IsNodeList(list) == \A i \in DOMAIN list : "nodeType" \in DOMAIN list[i]
IsTemplateList(list) == \A i \in DOMAIN list : "id" \in DOMAIN list[i]

\* C13: the cache key includes the corpus: the key search uses differs from
\* the key searchTemplates uses, for every pair of queries and options, so a
\* list cached by one is never returned by the other.
C13_KeysSeparateCorpora ==
    \A c \in Slots :
        LET call == calls[c]
        IN  (call.pc = "done" /\ call.trace = <<"cacheGet">>)
            => IF call.corpus = "nodes" THEN IsNodeList(call.results)
               ELSE IsTemplateList(call.results)

\* call c ends its pipeline run in this step / is answered from the cache in
\* this step
EndsRun(c) == calls[c].pc = "truncate" /\ calls'[c].pc = "done" /\ ~calls'[c].err
HitsCache(c) == calls[c].pc = "idle" /\ calls'[c].trace = <<"cacheGet">>

\* C14: under any interleaving of concurrent searches, every cache entry
\* holds the complete list of one pipeline run for its key, and every call
\* returns such a cached list or the list of its own run; no list is put
\* together from two runs.
C14_ListsOfOneRun ==
    [][/\ \A c \in Slots :
            /\ EndsRun(c)
               => /\ calls'[c].results = Slice(calls[c].final, calls[c].options.limit)
                  /\ enableCache => cache'[calls[c].key].value = calls'[c].results
            /\ HitsCache(c)
               => /\ calls'[c].key \in DOMAIN cache
                  /\ calls'[c].results = cache[calls'[c].key].value
                  /\ cache' = cache
       /\ \A k \in DOMAIN cache' :
            \/ k \in DOMAIN cache /\ cache'[k] = cache[k]
            \/ \E c \in Slots : /\ EndsRun(c) /\ calls[c].key = k
                                /\ cache'[k].value = calls'[c].results]_vars

C14_Witness ==
    \E c1, c2 \in Slots :
        /\ c1 # c2
        /\ calls[c1].pc = "done" /\ calls[c2].pc = "done"
        /\ Has(calls[c1].trace, "cacheSet") /\ Has(calls[c2].trace, "cacheSet")
        /\ calls[c1].key = calls[c2].key
        /\ calls[c1].results # <<>> /\ calls[c2].results # <<>>
        /\ calls[c1].results # calls[c2].results
        /\ calls[c1].key \in DOMAIN cache
        /\ cache[calls[c1].key].value = calls[c1].results

\* the ids of a list, in order; the 1-based position of an id (0: absent)
Ids(list) == [i \in DOMAIN list |-> list[i].nodeType]
PositionOf(list, id) ==
    IF \E i \in DOMAIN list : list[i].nodeType = id
    THEN CHOOSE i \in DOMAIN list : list[i].nodeType = id
    ELSE 0

\* w/(k + r), and nothing for a list the entity is absent from
RRFTerm(weight, r) == IF r = 0 THEN Zero ELSE RatMul(weight, Rat(1, RrfK + r))

\* C15: for input lists without repeated ids, fuseResults gives each entity
\* of either list the score wA/(k+rA) + wB/(k+rB), rA and rB its 1-based
\* positions in the two lists, the term of a list it is absent from omitted.
C15_FusedScore ==
    fusion.pc = "returned" =>
        /\ Range(Ids(fusion.results))
             = Range(Ids(fusion.fts5Results)) \cup Range(Ids(fusion.vectorResults))
        /\ \A i, j \in DOMAIN fusion.results :
              i # j => fusion.results[i].nodeType # fusion.results[j].nodeType
        /\ \A i \in DOMAIN fusion.results :
              LET id == fusion.results[i].nodeType
              IN  fusion.results[i].relevanceScore
                    = RatAdd(RRFTerm(Weights.fts5, PositionOf(fusion.fts5Results, id)),
                             RRFTerm(Weights.vector, PositionOf(fusion.vectorResults, id)))

\* an entity at ranks 1 and 2 of the two lists scores 1/61 + 1/62, and an
\* entity of one list only, at rank 2, scores 1/62
C15_Witness ==
    /\ fusion.pc = "returned"
    /\ \E i, j \in DOMAIN fusion.results :
          /\ PositionOf(fusion.fts5Results, fusion.results[i].nodeType) = 1
          /\ PositionOf(fusion.vectorResults, fusion.results[i].nodeType) = 2
          /\ fusion.results[i].relevanceScore = RatAdd(Rat(1, 61), Rat(1, 62))
          /\ PositionOf(fusion.fts5Results, fusion.results[j].nodeType) = 0
          /\ PositionOf(fusion.vectorResults, fusion.results[j].nodeType) = 1
          /\ fusion.results[j].relevanceScore = Rat(1, 61)

NonIncreasing(list) ==
    \A i \in 1..(Len(list) - 1) :
        RatLeq(list[i + 1].relevanceScore, list[i].relevanceScore)

\* where an entity stands in the input: the lexical list first, in its order,
\* then the entities of the vector list only, in the vector list's order
InputOrder(fts5Results, vectorResults, id) ==
    IF PositionOf(fts5Results, id) # 0 THEN PositionOf(fts5Results, id)
    ELSE Len(fts5Results) + PositionOf(vectorResults, id)

\* C16: fuseResults returns its entities by non-increasing fused score, and
\* entities of equal fused score keep the input order (the lexical list's
\* entities in lexical order, then the vector-only ones in vector order).
C16_SortedAndStable ==
    fusion.pc = "returned" =>
        /\ NonIncreasing(fusion.results)
        /\ \A i, j \in DOMAIN fusion.results :
              (i < j /\ fusion.results[i].relevanceScore = fusion.results[j].relevanceScore)
              => InputOrder(fusion.fts5Results, fusion.vectorResults,
                            fusion.results[i].nodeType)
                 < InputOrder(fusion.fts5Results, fusion.vectorResults,
                              fusion.results[j].nodeType)

\* three entities, the first two with equal fused scores (one from each list
\* only, both at rank 1), the third strictly lower
C16_Witness ==
    /\ fusion.pc = "returned"
    /\ Len(fusion.results) = 3
    /\ fusion.results[1].relevanceScore = fusion.results[2].relevanceScore
    /\ PositionOf(fusion.fts5Results, fusion.results[1].nodeType) = 1
    /\ PositionOf(fusion.vectorResults, fusion.results[1].nodeType) = 0
    /\ PositionOf(fusion.fts5Results, fusion.results[2].nodeType) = 0
    /\ PositionOf(fusion.vectorResults, fusion.results[2].nodeType) = 1
    /\ RatLess(fusion.results[3].relevanceScore, fusion.results[2].relevanceScore)

\* the same call with its two input lists swapped
SwappedResults == FuseResults(fusion.vectorResults, fusion.fts5Results)

ScoreIn(list, id) == list[PositionOf(list, id)].relevanceScore

\* C17 as stated: fuseResults is deterministic, and with equal weights
\* swapping its two input lists changes nothing: the same entities, in the
\* same order, with the same fused scores.
C17_SwapKeepsRanking ==
    fusion.pc = "returned" =>
        /\ fusion.results = FuseResults(fusion.fts5Results, fusion.vectorResults)
        /\ Ids(SwappedResults) = Ids(fusion.results)
        /\ \A i \in DOMAIN fusion.results :
              SwappedResults[i].relevanceScore = fusion.results[i].relevanceScore

\* C17, amended: fuseResults is deterministic, and with equal weights
\* swapping its two input lists keeps the entities and the fused score of each
\* entity, and keeps the order of any two entities whose fused scores differ;
\* entities of equal fused score may change places.
C17_SwapKeepsScores ==
    fusion.pc = "returned" =>
        /\ fusion.results = FuseResults(fusion.fts5Results, fusion.vectorResults)
        /\ Len(SwappedResults) = Len(fusion.results)
        /\ Range(Ids(SwappedResults)) = Range(Ids(fusion.results))
        /\ \A i \in DOMAIN fusion.results :
              ScoreIn(SwappedResults, fusion.results[i].nodeType)
                = fusion.results[i].relevanceScore
        /\ NonIncreasing(SwappedResults)
        /\ \A i, j \in DOMAIN fusion.results :
              (i < j /\ fusion.results[i].relevanceScore # fusion.results[j].relevanceScore)
              => PositionOf(SwappedResults, fusion.results[i].nodeType)
                 < PositionOf(SwappedResults, fusion.results[j].nodeType)

\* a call whose swapped twin ranks two entities of equal score the other way
C17_Witness ==
    /\ fusion.pc = "returned"
    /\ Len(fusion.results) = 3
    /\ Ids(SwappedResults) # Ids(fusion.results)
    /\ \A i \in DOMAIN fusion.results :
          SwappedResults[i].relevanceScore = fusion.results[i].relevanceScore

\* the lists that rank the same ids in the same positions as `list`, whatever
\* raw relevanceScore they carry
Rescored(list, method) == {l \in RankedLists(method) : Ids(l) = Ids(list)}

\* C18: the fused score and the fused position of a document depend only on
\* the positions of its id in the two input lists: the same ids in the same
\* positions give the same fused ids, order and scores whatever the raw
\* relevanceScore values of the inputs are.
C18_RawScoresIgnored ==
    fusion.pc = "returned" =>
        \A fts5Results \in Rescored(fusion.fts5Results, "fts5") :
            \A vectorResults \in Rescored(fusion.vectorResults, "vector") :
                LET other == FuseResults(fts5Results, vectorResults)
                IN  /\ Ids(other) = Ids(fusion.results)
                    /\ \A i \in DOMAIN other :
                          other[i].relevanceScore = fusion.results[i].relevanceScore

\* a call whose first list carries raw scores that rise with the rank, and
\* whose fused list still follows the ranks
C18_Witness ==
    /\ fusion.pc = "returned"
    /\ Len(fusion.fts5Results) >= 2
    /\ RatLess(fusion.fts5Results[1].relevanceScore, fusion.fts5Results[2].relevanceScore)
    /\ fusion.vectorResults = <<>>
    /\ Ids(fusion.results) = Ids(fusion.fts5Results)
    /\ Cardinality(Rescored(fusion.fts5Results, "fts5")) > 1

\* C19: every list that search or searchTemplates returns has relevanceScore
\* non-increasing from first to last, in every mode, whatever order and
\* scores the reranking provider answers and when the candidates beyond the
\* reranker's cap are appended.
C19_ReturnedListsSorted ==
    \A c \in Slots :
        (calls[c].pc = "done" /\ ~calls[c].err) => NonIncreasing(calls[c].results)

\* every response received carries one item per text of its batch, with the
\* index of that text
WellFormed(data, batch) ==
    /\ Len(data) = Len(batch)
    /\ \A j \in 1..Len(batch) : \E k \in DOMAIN data : data[k] = DataItem(j - 1, batch[j])

AllWellFormed ==
    LET batches == CreateBatches(embedding.texts, BatchSize)
    IN  /\ Len(embedding.responses) = Len(batches)
        /\ \A b \in DOMAIN batches : WellFormed(embedding.responses[b], batches[b])

\* C20: when every provider response carries one item per input text with
\* its index, generateEmbeddings returns exactly one vector per input text and
\* the vector at position i is the one produced for text i, whatever the
\* order of the items inside a response and however many batches there are.
C20_OneVectorPerTextInOrder ==
    (embedding.pc = "returned" /\ ~embedding.err /\ AllWellFormed)
    => /\ Len(embedding.embeddings) = Len(embedding.texts)
       /\ \A i \in DOMAIN embedding.texts :
             embedding.embeddings[i] = Float32Array(ProviderEmbedding(embedding.texts[i]))

\* three different texts in two batches, the first answered out of order
C20_Witness ==
    /\ embedding.pc = "returned"
    /\ ~embedding.err
    /\ AllWellFormed
    /\ Len(embedding.texts) = MaxTexts
    /\ Cardinality(Range(embedding.texts)) = MaxTexts
    /\ Len(embedding.responses) >= 2
    /\ embedding.responses[1][1].index # 0

RECURSIVE Flatten(_)
Flatten(lists) == IF lists = <<>> THEN <<>> ELSE Head(lists) \o Flatten(Tail(lists))

\* the requests of a log prefix that have no outcome yet
InFlight(log, n) ==
    Cardinality({k \in 1..n : log[k].e = "create"})
    - Cardinality({k \in 1..n : log[k].e \in {"threw", "answered"}})

\* C21: generateEmbeddings splits its input into consecutive batches of at
\* most batchSize texts whose concatenation is the input; it sends them one
\* at a time, the request for a batch only after the batch before it has been
\* answered, so that at most one request is in flight; and it waits the
\* inter-batch delay after every answered batch but the last.
C21_BatchesOneAtATime ==
    LET batches == CreateBatches(embedding.texts, BatchSize)
        log == embedding.log
    IN  embedding.pc \in {"batches", "returned"} =>
        /\ Flatten(batches) = embedding.texts
        /\ \A b \in DOMAIN batches : Len(batches[b]) \in 1..BatchSize
        /\ \A n \in 0..Len(log) : InFlight(log, n) \in {0, 1}
        /\ \A k \in DOMAIN log :
              log[k].e = "create" =>
                  \A b \in 1..(log[k].batch - 1) :
                      \E j \in 1..(k - 1) : log[j] = Succeeded(b)
        /\ \A k \in DOMAIN log :
              log[k].e = "answered" =>
                  IF log[k].batch < Len(batches)
                  THEN /\ k < Len(log)
                       /\ log[k + 1] = Delay(InterBatchDelayMs)
                       /\ k + 2 <= Len(log) => log[k + 2] = Create(log[k].batch + 1)
                  ELSE k = Len(log)
        /\ \A k \in DOMAIN log :
              log[k] = Delay(InterBatchDelayMs) => (k > 1 /\ log[k - 1].e = "answered")

\* a call of two batches, both answered, with one wait between them and none
\* at the end
C21_Witness ==
    /\ embedding.pc = "returned"
    /\ ~embedding.err
    /\ Len(embedding.texts) = MaxTexts
    /\ Len(CreateBatches(embedding.texts, BatchSize)) >= 2
    /\ embedding.log = <<Create(1), Succeeded(1), Delay(InterBatchDelayMs),
                         Create(2), Succeeded(2)>>

\* the failures of request i among the first k entries of a log
FailuresUpTo(log, i, k) == Cardinality({j \in 1..k : log[j] = Threw(i)})

\* a log follows the retry schedule: at most maxRetries attempts of a
\* request; after its n-th failure, n < maxRetries, a wait of
\* baseDelayMs * 2^(n-1) and then the next attempt; after the maxRetries-th
\* failure nothing; no attempt after a success; no other retry wait
FollowsSchedule(log, maxRetries, baseDelayMs) ==
    /\ \A k \in DOMAIN log :
          log[k].e = "create" =>
              /\ Cardinality({j \in 1..k : log[j] = log[k]}) <= maxRetries
              /\ \A j \in 1..(k - 1) : log[j] # Succeeded(log[k].batch)
              /\ k < Len(log) /\ log[k + 1].e \in {"threw", "answered"}
              /\ log[k + 1].batch = log[k].batch
    /\ \A k \in DOMAIN log :
          log[k].e = "threw" =>
              LET n == FailuresUpTo(log, log[k].batch, k)
              IN  IF n < maxRetries
                  THEN /\ k + 2 <= Len(log)
                       /\ log[k + 1] = Delay(baseDelayMs * 2 ^ (n - 1))
                       /\ log[k + 2] = Create(log[k].batch)
                  ELSE k = Len(log)
    /\ \A k \in DOMAIN log :
          (log[k].e = "delay" /\ log[k] # Delay(InterBatchDelayMs))
          => (k > 1 /\ log[k - 1].e = "threw")

\* C22: each embedding batch request and each rerank request is attempted at
\* most maxRetries (3) times; after the n-th failure in a row, n < maxRetries,
\* the client waits 1000 * 2^(n-1) ms before the next attempt; the first
\* success ends the attempts; nothing is waited after the last failed
\* attempt; and the two clients follow the same schedule of attempts and
\* waits.
C22_RetrySchedule ==
    /\ FollowsSchedule(embedding.log, 3, 1000)
    /\ FollowsSchedule(direct.log, 3, 1000)
    /\ \A failures \in 0..3 :
          LET attempts == [k \in 1..(failures + 1) |->
                              IF k <= failures THEN AttemptThrows ELSE Answer(<<First>>)]
          IN  ProcessBatchSchedule(1, failures, 0) = RerankSchedule(attempts, 0)

\* an embedding batch answered at its third attempt after waits of 1 s and
\* 2 s, and a rerank request that failed three times
C22_Witness ==
    /\ embedding.pc = "returned"
    /\ ~embedding.err
    /\ embedding.log = <<Create(1), Threw(1), Delay(1000), Create(1), Threw(1),
                         Delay(2000), Create(1), Succeeded(1)>>
    /\ direct.pc = "returned"
    /\ direct.log = <<Create(1), Threw(1), Delay(1000), Create(1), Threw(1),
                      Delay(2000), Create(1), Threw(1)>>

\* batch i failed on all of its attempts
Exhausted(i) == FailuresUpTo(embedding.log, i, Len(embedding.log)) >= EmbeddingMaxRetries

\* C23: if a batch fails on all of its maxRetries attempts, generateEmbeddings
\* fails with an error and delivers no vectors at all, neither those of the
\* batches answered before nor placeholders, and no later batch is sent to the
\* provider.
C23_FailedBatchFailsCall ==
    \A i \in DOMAIN CreateBatches(embedding.texts, BatchSize) :
        Exhausted(i) =>
            /\ embedding.pc = "returned"
            /\ embedding.err
            /\ embedding.embeddings = <<>>
            /\ \A k \in DOMAIN embedding.log :
                  embedding.log[k].e = "create" => embedding.log[k].batch <= i

\* the first batch was answered, the second failed three times
C23_Witness ==
    /\ embedding.pc = "returned"
    /\ Exhausted(2)
    /\ \E k \in DOMAIN embedding.log : embedding.log[k] = Succeeded(1)
    /\ Len(embedding.responses) = 1
    /\ embedding.err

\* C24: getEmbedding(text) for a text whose embedding was cached less than
\* 24 hours ago returns the cached vector with tokenCount 0 and cost 0 and
\* makes no provider call; once 24 hours have passed since the entry was
\* written the provider is called again and the entry is replaced; entries are
\* keyed by the SHA-256 of the text, so that distinct texts never share one.
C24_CacheServesOneDay ==
    /\ single.pc = "returned" /\ single.before # None =>
          LET entry == single.before[1]
          IN  IF single.at - entry.timestamp < 24 * 60 * 60 * 1000
              THEN /\ ~single.err
                   /\ single.result = [embedding |-> entry.embedding,
                                       tokenCount |-> 0, cost |-> Zero]
                   /\ single.requests = 0
                   /\ single.after = single.before
              ELSE /\ single.requests >= 1
                   /\ ~single.err =>
                         /\ single.after = Some([embedding |-> single.result.embedding,
                                                  timestamp |-> single.at])
                         /\ single.result.tokenCount > 0
    /\ \A t1, t2 \in Texts :
          t1 # t2 => GenerateContentHash(t1) # GenerateContentHash(t2)
    /\ \A t \in Texts :
          GenerateContentHash(t) \in DOMAIN single.cache =>
              single.cache[GenerateContentHash(t)].embedding
                  = Float32Array(ProviderEmbedding(t))

\* an entry written at time 0 and asked for again exactly 24 hours later: the
\* provider is called and the entry is written anew, while another text has
\* its own entry
C24_Witness ==
    /\ single.pc = "returned"
    /\ single.before # None
    /\ single.before[1].timestamp = 0
    /\ single.at = EmbeddingCacheTTL
    /\ ~single.err
    /\ single.requests >= 1
    /\ single.after # None
    /\ single.after[1].timestamp = EmbeddingCacheTTL
    /\ Cardinality(DOMAIN single.cache) >= 2

\* the rows of the table a findSimilar call scanned, and the similarity of a
\* row to the query vector (for a vector of the query's length)
Scanned ==
    IF repo.op = "findSimilarNodes" THEN repo.before.nodes ELSE repo.before.templates
ResultId(e) == IF repo.op = "findSimilarNodes" THEN NodeType(e) ELSE TemplateNodeType(e)
SimilarityOf(e) ==
    CalculateCosineSimilarity(repo.queryVector, Float32ArrayOf(Scanned[e].vector[1]))
Qualifies(e) ==
    /\ Scanned[e].vector # None
    /\ Len(Float32ArrayOf(Scanned[e].vector[1])) = Len(repo.queryVector)
    /\ RatLeq(repo.threshold, SimilarityOf(e))
FindReturned == repo.pc = "returned" /\ repo.op \in {"findSimilarNodes", "findSimilarTemplates"}

\* C25: findSimilarNodes and findSimilarTemplates return exactly the top
\* `limit` of the entities that have a stored vector and a cosine similarity
\* to the query vector of at least `threshold`: every returned entity
\* qualifies and carries its similarity, the list is non-increasing and has
\* min(limit, number of qualifying entities) elements without repetition, and
\* no omitted qualifying entity has a higher similarity than a returned one.
C25_TopLimitAboveThreshold ==
    FindReturned =>
        LET results == repo.results
            qualifying == {e \in DOMAIN Scanned : Qualifies(e)}
            returned == {e \in DOMAIN Scanned :
                            \E k \in DOMAIN results : results[k].nodeType = ResultId(e)}
        IN  /\ \A k \in DOMAIN results :
                  \E e \in qualifying :
                      /\ results[k].nodeType = ResultId(e)
                      /\ results[k].relevanceScore = SimilarityOf(e)
            /\ NonIncreasing(results)
            /\ Len(results) = Min(repo.limit, Cardinality(qualifying))
            /\ Cardinality(returned) = Len(results)
            /\ \A e \in qualifying \ returned :
                  \A k \in DOMAIN results :
                      RatLeq(SimilarityOf(e), results[k].relevanceScore)

\* a scan of two stored vectors of which the second is the more similar, with
\* limit 1: the second row alone is returned
C25_Witness ==
    /\ FindReturned
    /\ repo.limit = 1
    /\ Qualifies(1) /\ Qualifies(2)
    /\ RatLess(SimilarityOf(1), SimilarityOf(2))
    /\ Len(repo.results) = 1
    /\ repo.results[1].nodeType = ResultId(2)

InUnitRange(similarity) ==
    /\ similarity # NaN
    /\ RatLeq(<<-1, 1>>, similarity)
    /\ RatLeq(similarity, One)

\* C26: for two vectors of one length of which at least one has zero norm the
\* computed similarity is 0, never NaN; for non-zero vectors it lies within
\* [-1, 1]; and findSimilar never returns a result whose similarity is NaN or
\* outside [-1, 1].
C26_SimilarityInRange ==
    FindReturned =>
        /\ \A e \in DOMAIN Scanned :
              (Scanned[e].vector # None
               /\ Len(Float32ArrayOf(Scanned[e].vector[1])) = Len(repo.queryVector))
              => IF DotProduct(repo.queryVector, repo.queryVector) = 0
                    \/ DotProduct(Float32ArrayOf(Scanned[e].vector[1]),
                                  Float32ArrayOf(Scanned[e].vector[1])) = 0
                 THEN SimilarityOf(e) = Zero
                 ELSE InUnitRange(SimilarityOf(e))
        /\ \A k \in DOMAIN repo.results : InUnitRange(repo.results[k].relevanceScore)

\* the embedding columns of a row
EmbeddingColumns(row) ==
    [vector |-> row.vector, hash |-> row.hash, generatedAt |-> row.generatedAt]

BatchReturned == repo.pc = "returned" /\ repo.op = "batchSaveEmbeddings"

NeedingReturned ==
    /\ repo.pc = "returned"
    /\ repo.op \in {"getNodesNeedingEmbeddings", "getTemplatesNeedingEmbeddings"}
Queried ==
    IF repo.op = "getNodesNeedingEmbeddings" THEN repo.before.nodes
    ELSE repo.before.templates
Reported(e) == \E k \in DOMAIN repo.results : repo.results[k].id = e

\* the row has an embedding whose contentHash is not the hash of the entity's
\* current text
Stale(row) ==
    /\ row.vector # None
    /\ row.hash # None
    /\ row.hash[1] # GenerateContentHash(row.text)

\* C28: an entity that has a stored embedding whose contentHash differs from
\* the hash of its current searchable text is always returned by
\* getNodesNeedingEmbeddings / getTemplatesNeedingEmbeddings; once its
\* embedding has been saved with the hash of the current text it is no longer
\* returned.
C28_StaleIsReported ==
    NeedingReturned =>
        \A e \in DOMAIN Queried :
            /\ Stale(Queried[e]) => Reported(e)
            /\ Queried[e].savedCurrent => ~Reported(e)

\* the second half of C28 alone: an entity whose embedding was saved with the
\* hash of its current text is not returned
C28_SavedCurrentNotReported ==
    NeedingReturned =>
        \A e \in DOMAIN Queried : Queried[e].savedCurrent => ~Reported(e)

\* C29: rerank sends at most maxDocuments candidates to the provider, the
\* first maxDocuments of its input; every candidate beyond that position is
\* in the output after all the reranked candidates, in its original relative
\* order and with its score unchanged.
C29_BeyondCapAppended ==
    direct.pc = "returned" =>
        LET documents == direct.documents
            beyond == SubSeq(documents, Min(MaxDocuments, Len(documents)) + 1, Len(documents))
            results == direct.results
            head == Len(results) - Len(beyond)
        IN  /\ Len(direct.sent) <= MaxDocuments
            /\ direct.sent = SubSeq(documents, 1, Len(direct.sent))
            /\ direct.log # <<>> => Len(direct.sent) = Min(MaxDocuments, Len(documents))
            /\ head >= 0
            /\ SubSeq(results, head + 1, Len(results)) = beyond
            /\ \A k \in 1..head :
                  \E j \in 1..Min(MaxDocuments, Len(documents)) :
                      results[k].nodeType = documents[j].nodeType

\* three candidates with a cap of one: the first is reranked, the other two
\* follow it as they were
C29_Witness ==
    /\ direct.pc = "returned"
    /\ Len(direct.documents) = MaxDocuments + 2
    /\ direct.sent = <<direct.documents[1]>>
    /\ direct.log = <<Create(1), Succeeded(1)>>
    /\ direct.results[1].searchMethod = "hybrid"
    /\ SubSeq(direct.results, 2, Len(direct.results))
          = SubSeq(direct.documents, 2, Len(direct.documents))

\* C30: searchCombined runs the node pipeline with limit ceil(0.7 * limit)
\* and the template pipeline with limit ceil(0.3 * limit), returns the two
\* lists separately labelled (nodes holds only node entities, templates only
\* template entities), and totalCount equals nodes.length + templates.length.
C30_CombinedKeepsCorporaApart ==
    combined.pc = "returned" =>
        /\ 10 * (combined.nodeLimit - 1) < 7 * combined.limit
        /\ 7 * combined.limit <= 10 * combined.nodeLimit
        /\ 10 * (combined.templateLimit - 1) < 3 * combined.limit
        /\ 3 * combined.limit <= 10 * combined.templateLimit
        /\ IsNodeList(combined.nodes)
        /\ IsTemplateList(combined.templates)
        /\ combined.totalCount = Len(combined.nodes) + Len(combined.templates)

\* the part of C30 that is about the limits and the count alone
C30_LimitsAndCount ==
    combined.pc = "returned" =>
        /\ 10 * (combined.nodeLimit - 1) < 7 * combined.limit
        /\ 7 * combined.limit <= 10 * combined.nodeLimit
        /\ 10 * (combined.templateLimit - 1) < 3 * combined.limit
        /\ 3 * combined.limit <= 10 * combined.templateLimit
        /\ Len(combined.nodes) <= combined.nodeLimit
        /\ Len(combined.templates) <= combined.templateLimit
        /\ combined.totalCount = Len(combined.nodes) + Len(combined.templates)

\* C31: getOptimalK returns 30 when the combined number of lexical and vector
\* results is below 10, 90 when it is above 50, and 60 for every count from
\* 10 to 50 inclusive.
C31_OptimalKBands ==
    optimal.pc = "returned" =>
        LET count == optimal.fts5Count + optimal.vectorCount
        IN  optimal.k = IF count < 10 THEN 30 ELSE IF count > 50 THEN 90 ELSE 60

\* the bands apart from the count 50 itself
C31_BandsButFifty ==
    optimal.pc = "returned" =>
        LET count == optimal.fts5Count + optimal.vectorCount
        IN  count # 50 =>
                optimal.k = IF count < 10 THEN 30 ELSE IF count > 50 THEN 90 ELSE 60

\* a rerank call the provider answered
RerankSucceeded(d) == Entered(d) /\ d.client /\ ~AllThrow(d)

\* the reranked prefix of the list a call returned: what precedes the
\* candidates that were not sent
RerankedPrefix(d) ==
    SubSeq(d.results, 1, Len(d.results) - Len(RemainingDocuments(d.documents)))

\* C32: when reranking succeeds, rerank returns a reordering of its
\* candidates: every returned element is one of the input candidates, no
\* candidate appears more than once, and the reranked prefix has at most topN
\* elements, for any result indices the provider returns.
C32_RerankIsReordering ==
    RerankSucceeded(direct) =>
        /\ \A k \in DOMAIN direct.results :
              \E j \in DOMAIN direct.documents :
                  direct.results[k].nodeType = direct.documents[j].nodeType
        /\ \A k, l \in DOMAIN direct.results :
              k # l => direct.results[k].nodeType # direct.results[l].nodeType
        /\ Len(RerankedPrefix(direct)) <= DefaultTopN

\* the part of C32 that the code keeps: what is returned are input candidates
C32_ElementsAreCandidates ==
    RerankSucceeded(direct) =>
        /\ \A k \in DOMAIN direct.results :
              \E j \in DOMAIN direct.documents :
                  direct.results[k].nodeType = direct.documents[j].nodeType
        /\ Len(RerankedPrefix(direct)) <= DefaultTopN

\* the id of a result of either corpus, and its 1-based position in a list
EntityId(r) == IF "nodeType" \in DOMAIN r THEN r.nodeType ELSE r.id
RankIn(list, r) ==
    IF \E i \in DOMAIN list : EntityId(list[i]) = EntityId(r)
    THEN CHOOSE i \in DOMAIN list : EntityId(list[i]) = EntityId(r)
    ELSE 0

\* the fused score of r computed with the constant k
ScoreWithK(k, call, r) ==
    RatAdd(IF RankIn(call.fts, r) = 0 THEN Zero
           ELSE RatMul(Weights.fts5, Rat(1, k + RankIn(call.fts, r))),
           IF RankIn(call.vec, r) = 0 THEN Zero
           ELSE RatMul(Weights.vector, Rat(1, k + RankIn(call.vec, r))))

\* a call whose two lists have just gone through fuseResults
FusedByRRF(call) == JustFused(call) /\ Has(call.trace, "fuseResults")

\* C33: the RRF k supplied for a search (the rrfK search option, default 60)
\* is the k that fusion uses to compute the fused scores of that search.
C33_RrfKIsFusionK ==
    \A c \in Slots :
        FusedByRRF(calls[c]) =>
            \A i \in DOMAIN calls[c].fused :
                calls[c].fused[i].relevanceScore
                    = ScoreWithK(calls[c].options.rrfK, calls[c], calls[c].fused[i])

\* what the code does instead: the k of the RRFFusion instance is used,
\* whatever the rrfK of the call
C33_FusionUsesInstanceK ==
    \A c \in Slots :
        FusedByRRF(calls[c]) =>
            \A i \in DOMAIN calls[c].fused :
                calls[c].fused[i].relevanceScore
                    = ScoreWithK(RrfK, calls[c], calls[c].fused[i])

\* C34: every search call completes, with a list or an error, after at most
\* maxRetries embedding requests and at most maxRetries rerank requests; a
\* call in flight never stays in flight for ever.
C34_SearchCompletes ==
    /\ [](live.made <= EmbeddingMaxRetries /\ live.rerankMade <= MaxRetries)
    /\ (live.pc \notin {"idle", "done"}) ~> (live.pc = "done")
    /\ [](live.pc = "done" => live.outcome \in {"list", "error"})

\* a search has completed after both retry loops ran out of attempts
C34_Witness ==
    /\ live.pc = "done"
    /\ live.made = EmbeddingMaxRetries
    /\ live.attempt = EmbeddingMaxRetries
    /\ live.rerankMade = MaxRetries
    /\ live.rerankAttempt = MaxRetries

\* C35: for any two input lists, lists that repeat an id included, fuseResults
\* returns each id of the union of the two lists exactly once and no id
\* outside that union.
C35_EachIdOnce ==
    fusion.pc = "returned" =>
        LET ids == [i \in DOMAIN fusion.results |-> fusion.results[i].nodeType]
            given == {fusion.fts5Results[i].nodeType : i \in DOMAIN fusion.fts5Results}
                     \cup {fusion.vectorResults[i].nodeType :
                              i \in DOMAIN fusion.vectorResults}
        IN  /\ \A i, j \in DOMAIN ids : i # j => ids[i] # ids[j]
            /\ Range(ids) = given

\* both lists repeat an id, one id is in both lists, one in one list only
C35_Witness ==
    /\ fusion.pc = "returned"
    /\ \E i, j \in DOMAIN fusion.fts5Results :
          i # j /\ fusion.fts5Results[i].nodeType = fusion.fts5Results[j].nodeType
    /\ \E i, j \in DOMAIN fusion.vectorResults :
          i # j /\ fusion.vectorResults[i].nodeType = fusion.vectorResults[j].nodeType
    /\ \E i \in DOMAIN fusion.fts5Results, j \in DOMAIN fusion.vectorResults :
          fusion.fts5Results[i].nodeType = fusion.vectorResults[j].nodeType
    /\ Len(fusion.results) = 3

\* the entities whose stored hash was the hash of their content when the run
\* began
Unchanged(e) ==
    script.before[e].hash = Some(GenerateContentHash(script.before[e].text))

WasSent(e) == \E k \in DOMAIN script.sent : script.sent[k].id = e

\* C36: without forceRegenerate an entity whose stored contentHash is the hash
\* of its current content is skipped: its text is not sent to the provider and
\* its stored vector, hash and timestamp stay as they were; only entities
\* whose hash is missing or different are regenerated and saved.
C36_UnchangedIsSkipped ==
    (script.pc # "idle" /\ ~script.options.forceRegenerate) =>
        \A e \in Entities :
            /\ Unchanged(e) => (~WasSent(e) /\ script.table[e] = script.before[e])
            /\ (WasSent(e) \/ script.table[e] # script.before[e]) => ~Unchanged(e)

\* one batch held an unchanged entity the query had returned and an entity
\* with another text; the first was skipped, the second regenerated and saved
C36_Witness ==
    /\ script.pc = "done"
    /\ ~script.options.forceRegenerate
    /\ \E e, o \in Entities :
          /\ Unchanged(e)
          /\ NeedsEmbedding(script.before[e])
          /\ script.counted.skipped = <<e>>
          /\ script.counted.processed = <<o>>
          /\ script.table[o] # script.before[o]
          /\ script.table[o].hash = Some(GenerateContentHash(script.before[o].text))
          /\ Len(script.batches) = 1

TimesCounted(e) ==
    Cardinality({k \in DOMAIN script.counted.processed : script.counted.processed[k] = e})
    + Cardinality({k \in DOMAIN script.counted.skipped : script.counted.skipped[k] = e})
    + Cardinality({k \in DOMAIN script.counted.failed : script.counted.failed[k] = e})

\* C38: when a run finishes, processed + skipped + failed is at most total and
\* every entity is counted by at most one of the three counters, whatever the
\* mix of unchanged entities, failing batches and nodeTypes filters.
C38_CountersPartition ==
    script.pc = "done" =>
        /\ script.stats.processed + script.stats.skipped + script.stats.failed
              <= script.stats.total
        /\ \A e \in Entities : TimesCounted(e) <= 1

\* the same, for the runs in which no failing batch had skipped an entity
C38_PartitionUnlessSkippedInFailedBatch ==
    (/\ script.pc = "done"
     /\ \A e \in Entities :
           ~(/\ \E k \in DOMAIN script.counted.skipped : script.counted.skipped[k] = e
             /\ \E k \in DOMAIN script.counted.failed : script.counted.failed[k] = e)) =>
        /\ script.stats.processed + script.stats.skipped + script.stats.failed
              <= script.stats.total
        /\ \A e \in Entities : TimesCounted(e) <= 1

\* a failing batch does not stop the batches after it
C38_LaterBatchesProcessed ==
    script.pc = "done" =>
        Len(script.counted.processed) + Len(script.counted.skipped)
           + Len(script.counted.failed)
           >= Len(Flatten(script.batches))

\* C37: searchCombined never raises an error: when the node search or the
\* template search fails it returns a result whose nodes and templates are
\* both empty and whose totalCount is 0, whatever the other search produced.
C37_CombinedFailureIsEmpty ==
    combined.pc = "returned" =>
        /\ ~combined.raised
        /\ combined.failed =>
              /\ combined.nodes = <<>>
              /\ combined.templates = <<>>
              /\ combined.totalCount = 0

\* one search failed after the other had returned results
C37_Witness ==
    /\ combined.pc = "returned"
    /\ combined.failed
    /\ combined.produced.nodes # <<>> \/ combined.produced.templates # <<>>

\* a critical statement of the call failed
CriticalFailed == migration.errors > 0

\* every statement of the call was executed
AllExecuted == migration.next > Len(migration.statements)

\* nothing the call did to the schema or the history is left
NothingLeft ==
    /\ migration.db.durable = migration.before.durable
    /\ migration.db.recorded = migration.before.recorded
    /\ ~migration.db.inTransaction

MigrationClaim ==
    /\ migration.recordedNow =>
          /\ AllExecuted
          /\ ~CriticalFailed
          /\ migration.committed
    /\ (migration.pc = "returned" /\ CriticalFailed) =>
          /\ NothingLeft
          /\ ~migration.recordedNow
          /\ migration.result = Failure
    /\ (migration.pc = "returned" /\ migration.before.recorded
           /\ ~migration.options.forceReapply) =>
          /\ migration.db = migration.before
          /\ ~migration.result.applied

\* C39: migrateToSemanticSearch records the version only after every critical
\* statement executed and the transaction was committed; if a critical
\* statement fails the transaction is rolled back, nothing is recorded and the
\* result has success = false and applied = false; a later call without
\* forceReapply after a recorded migration changes nothing and returns
\* applied = false.
C39_RecordedOnlyAfterCommit == MigrationClaim

\* the same for the calls whose SQL file has no trigger (no `END` among the
\* statements) and whose read of migration_history works
C39_WithoutTriggersAndReadFaults ==
    ((\A k \in DOMAIN migration.statements : migration.statements[k].kind # "end")
        /\ migration.fault # "read")
       => MigrationClaim

\* the statements of the shipped file in short: an ordinary statement, then
\* two triggers; the first END commits, the second END fails, and the change
\* of the ordinary statement stays
C39_EndCommitted ==
    /\ migration.pc = "returned"
    /\ CriticalFailed
    /\ migration.result = Failure
    /\ migration.db.durable # migration.before.durable

====
